---- MODULE Spec2Model ----
(***************************************************************************)
(* A state-machine model of the encrypted filesystem engine of rencfs      *)
(* (src/src/encryptedfs.rs): the inode store, the attribute cache, the     *)
(* per-directory ls/hash index, the handle tables and the file I/O path.   *)
(***************************************************************************)
EXTENDS Integers, Sequences, FiniteSets, TLC

(***************************************************************************)
(* Bounds of the model.                                                    *)
(***************************************************************************)
MaxIno == 3          \* inode ids are drawn from 2..MaxIno (u64 in the code)
MaxHandle == 2       \* handles are allocated while current_handle <= MaxHandle
MaxTime == 1         \* the clock runs from 0 to MaxTime
MaxPlain == 2        \* cipher.max_plaintext_len()
MaxCalls == 4        \* a run makes at most MaxCalls calls of the API
MaxProcs == 2        \* the callers whose calls run concurrently

ROOT_INODE == 1

Inos == ROOT_INODE..MaxIno
Fhs == 1..MaxHandle
Procs == 1..MaxProcs

Directory == "Directory"
RegularFile == "RegularFile"
FileTypes == {Directory, RegularFile}

(***************************************************************************)
(* Finite maps (HashMap, and the files of a directory on disk).            *)
(***************************************************************************)
Empty == [x \in {} |-> 0]

Put(f, k, v) == [x \in (DOMAIN f) \cup {k} |-> IF x = k THEN v ELSE f[x]]

Del(f, k) == [x \in (DOMAIN f) \ {k} |-> f[x]]

Max(a, b) == IF a >= b THEN a ELSE b

Min(a, b) == IF a <= b THEN a ELSE b

(***************************************************************************)
(* Logical names, and the names of the artifacts that store them.          *)
(***************************************************************************)
Names == {"a", "b", ".", "..", "$.", "$.."}

\* crypto::encrypt_file_name: deterministic; the synthetic on-disk names
\* "$." and "$.." are kept literally, every other name is encrypted.
encrypt_file_name(n) ==
    CASE n = "$."  -> "$."
      [] n = "$.." -> "$.."
      [] n = "a"   -> "enc(a)"
      [] n = "b"   -> "enc(b)"
      [] n = "."   -> "enc(.)"
      [] n = ".."  -> "enc(..)"

\* crypto::decrypt_file_name: the inverse on encrypted names.
decrypt_file_name(e) ==
    CASE e = "enc(a)"  -> "a"
      [] e = "enc(b)"  -> "b"
      [] e = "enc(.)"  -> "."
      [] e = "enc(..)" -> ".."
      [] OTHER         -> "?"

\* hex::encode(crypto::hash_secret_string(name)): a fixed-width digest,
\* injective on the names of the model.
hash_secret_string(n) ==
    CASE n = "a"   -> "h(a)"
      [] n = "b"   -> "h(b)"
      [] n = "."   -> "h(.)"
      [] n = ".."  -> "h(..)"
      [] n = "$."  -> "h($.)"
      [] n = "$.." -> "h($..)"

\* crypto::hash_file_name: the hash artifact's file name. insert_ and
\* remove_directory_entry call it where the lookups hex-encode
\* hash_secret_string themselves: like encrypt_file_name it keeps the
\* synthetic on-disk names literally and digests every other name.
hash_file_name(n) ==
    IF n \in {"$.", "$.."} THEN n ELSE hash_secret_string(n)

(***************************************************************************)
(* The state of an engine instance.                                        *)
(*   inodes                 inodes/<ino>: the stored FileAttr records      *)
(*   attr_cache             the attribute LRU cache (capacity 2000)        *)
(*   contents               contents/<ino>: a regular file or a directory  *)
(*                          with its ls/ and hash/ artifacts               *)
(*   read_handles, write_handles, opened_files_for_read,                   *)
(*   opened_files_for_write, current_handle   the handle table             *)
(*   dir_entries_meta_cache the cache of directory entries' (ino, kind),   *)
(*                          keyed by the path of the ls artifact           *)
(*   security               security/: the salt and the master key         *)
(*                          encrypted under the key derived from the       *)
(*                          password                                       *)
(*   now                    SystemTime::now()                              *)
(*   ret                    the call that completed last and its result    *)
(*   calls                  the number of calls made so far                *)
(*   tasks                  for each caller, its call in progress and the  *)
(*                          step the call has reached                      *)
(***************************************************************************)
VARIABLES inodes, attr_cache, contents, read_handles, write_handles,
          opened_files_for_read, opened_files_for_write, current_handle,
          dir_entries_meta_cache, security, now, ret, calls, tasks

vars == <<inodes, attr_cache, contents, read_handles, write_handles,
          opened_files_for_read, opened_files_for_write, current_handle,
          dir_entries_meta_cache, security, now, ret, calls, tasks>>

\* The engine's state as one value; the handlers below are functions of it.
Cur ==
    [inodes |-> inodes, attr_cache |-> attr_cache, contents |-> contents,
     read_handles |-> read_handles, write_handles |-> write_handles,
     opened_files_for_read |-> opened_files_for_read,
     opened_files_for_write |-> opened_files_for_write,
     current_handle |-> current_handle,
     dir_entries_meta_cache |-> dir_entries_meta_cache, security |-> security]

Install(S) ==
    /\ inodes' = S.inodes
    /\ attr_cache' = S.attr_cache
    /\ contents' = S.contents
    /\ read_handles' = S.read_handles
    /\ write_handles' = S.write_handles
    /\ opened_files_for_read' = S.opened_files_for_read
    /\ opened_files_for_write' = S.opened_files_for_write
    /\ current_handle' = S.current_handle
    /\ dir_entries_meta_cache' = S.dir_entries_meta_cache
    /\ security' = S.security

\* A handler's outcome: the state it leaves, its result and the value returned.
Out(S, res, val) == [st |-> S, res |-> res, val |-> val]

(***************************************************************************)
(* FileAttr, SetFileAttr, TimeAndSizeFileAttr.                             *)
(***************************************************************************)
\* impl From<CreateFileAttr> for FileAttr, with attr.ino set by the caller.
NewAttr(ino, kind, t) ==
    [ino |-> ino, size |-> 0, atime |-> t, mtime |-> t, ctime |-> t,
     crtime |-> t, kind |-> kind, perm |-> 0, uid |-> 0]

Has(set_attr, fld) == fld \in DOMAIN set_attr

merge_attr(attr, set_attr) ==
    [attr EXCEPT
       !.size   = IF Has(set_attr, "size") THEN set_attr.size ELSE @,
       !.atime  = IF Has(set_attr, "atime") THEN Max(set_attr.atime, @) ELSE @,
       !.mtime  = IF Has(set_attr, "mtime") THEN Max(set_attr.mtime, @) ELSE @,
       !.ctime  = IF Has(set_attr, "ctime") THEN Max(set_attr.ctime, @) ELSE @,
       !.crtime = IF Has(set_attr, "crtime") THEN Max(set_attr.crtime, @) ELSE @,
       !.perm   = IF Has(set_attr, "perm") THEN set_attr.perm ELSE @,
       !.uid    = IF Has(set_attr, "uid") THEN set_attr.uid ELSE @]

\* impl From<FileAttr> for TimeAndSizeFileAttr
TimeAndSize(attr) ==
    [atime |-> attr.atime, mtime |-> attr.mtime, ctime |-> attr.ctime,
     crtime |-> attr.crtime, size |-> attr.size]

\* impl From<TimeAndSizeFileAttr> for SetFileAttr followed by attr.size.take()
TimesOnly(tsa) ==
    [atime |-> tsa.atime, mtime |-> tsa.mtime, ctime |-> tsa.ctime,
     crtime |-> tsa.crtime]

(***************************************************************************)
(* Paths.                                                                  *)
(***************************************************************************)
node_exists(S, ino) == ino \in DOMAIN S.inodes

is_dir(S, ino) == ino \in DOMAIN S.contents /\ S.contents[ino].kind = Directory

is_file(S, ino) == ino \in DOMAIN S.contents /\ S.contents[ino].kind = RegularFile

FileContent(data) == [kind |-> RegularFile, data |-> data, ls |-> Empty, hash |-> Empty]

DirContent(ls, hash) == [kind |-> Directory, data |-> <<>>, ls |-> ls, hash |-> hash]

\* Option<T>: None is the empty sequence, Some(x) the sequence of x alone.
None == <<>>

Some(x) == <<x>>

Nil == "nil"

\* let x = v; F(x): v is computed once and F applied to its value.
Bind(v, F(_)) == CHOOSE r \in {F(x) : x \in {v}} : TRUE

(***************************************************************************)
(* Inode store.                                                            *)
(***************************************************************************)
\* a write of the record that leaves the attribute cache as it is
WriteRecordOnly(S, attr) == [S EXCEPT !.inodes = Put(@, attr.ino, attr)]

write_inode_to_storage(S, attr) ==
    [S EXCEPT !.inodes = Put(@, attr.ino, attr),
              !.attr_cache = Put(@, attr.ino, attr)]

\* Ok(attr) or Err(InodeNotFound); reads the record, touches no state.
get_inode_from_storage(S, ino) ==
    IF ino \in DOMAIN S.inodes
    THEN Out(S, "Ok", S.inodes[ino])
    ELSE Out(S, "InodeNotFound", Nil)

\* A cache hit returns the cached record; a miss reads storage and fills
\* the cache.
get_inode_from_cache_or_storage(S, ino) ==
    IF ino \in DOMAIN S.attr_cache
    THEN Out(S, "Ok", S.attr_cache[ino])
    ELSE IF ino \in DOMAIN S.inodes
         THEN Out([S EXCEPT !.attr_cache = Put(@, ino, S.inodes[ino])],
                  "Ok", S.inodes[ino])
         ELSE Out(S, "InodeNotFound", Nil)

\* The loop of get_inode over the read handles of the inode: the time
\* fields of each live context are merged, the size is not.
RECURSIVE MergeReadHandles(_, _, _)
MergeReadHandles(S, attr, fhs) ==
    IF fhs = {} THEN attr
    ELSE Bind(CHOOSE h \in fhs : TRUE, LAMBDA fh :
            MergeReadHandles(
                S,
                IF fh \in DOMAIN S.read_handles
                THEN merge_attr(attr, TimesOnly(S.read_handles[fh].attr))
                ELSE attr,
                fhs \ {fh}))

\* The write half of get_inode: time fields and size of the context that
\* opened_files_for_write names, when write_handles still holds it.
MergeWriteHandle(S, attr, ino) ==
    IF /\ ino \in DOMAIN S.opened_files_for_write
       /\ S.opened_files_for_write[ino] \in DOMAIN S.write_handles
    THEN merge_attr(attr, S.write_handles[S.opened_files_for_write[ino]].attr)
    ELSE attr

get_inode(S, ino) ==
    Bind(get_inode_from_cache_or_storage(S, ino), LAMBDA g :
        IF g.res # "Ok" THEN g
        ELSE Out(g.st, "Ok",
                 MergeWriteHandle(
                     S,
                     IF ino \in DOMAIN S.opened_files_for_read
                     THEN MergeReadHandles(S, g.val,
                                           S.opened_files_for_read[ino])
                     ELSE g.val,
                     ino)))

update_inode(S, ino, set_attr) ==
    Bind(get_inode(S, ino), LAMBDA g :
        IF g.res # "Ok" THEN Out(S, g.res, Nil)
        ELSE Out(write_inode_to_storage(g.st, merge_attr(g.val, set_attr)),
                 "Ok", Nil))

(***************************************************************************)
(* Directory index: contents/<d>/ls/<encrypted name> holds (ino, kind),    *)
(* contents/<d>/hash/<hash of the name> holds (ino, kind, encrypted name). *)
(***************************************************************************)
LsPayload(ino, kind) == [ino |-> ino, kind |-> kind]

HashPayload(ino, kind, enc) == [ino |-> ino, kind |-> kind, name |-> enc]

\* the task of insert_directory_entry that writes ls/<encrypted name>
WriteLsArtifact(S, d, ino, name, kind) ==
    [S EXCEPT !.contents[d].ls =
        Put(@, encrypt_file_name(name), LsPayload(ino, kind))]

\* the task of insert_directory_entry that writes hash/<hash of the name>
WriteHashArtifact(S, d, ino, name, kind) ==
    [S EXCEPT !.contents[d].hash =
        Put(@, hash_file_name(name),
            HashPayload(ino, kind, encrypt_file_name(name)))]

\* Both artifacts are written (two tasks, both awaited); a directory
\* without its ls/ and hash/ directories fails both writes.
insert_directory_entry(S, d, ino, name, kind) ==
    IF ~is_dir(S, d) THEN Out(S, "Io", Nil)
    ELSE Out(WriteHashArtifact(WriteLsArtifact(S, d, ino, name, kind),
                               d, ino, name, kind),
             "Ok", Nil)

\* a removal that removes the hash artifact and leaves the ls artifact
RemoveHashOnly(S, parent, name) ==
    IF ~is_dir(S, parent)
       \/ hash_file_name(name) \notin DOMAIN S.contents[parent].hash
    THEN Out(S, "Io", Nil)
    ELSE Out([S EXCEPT !.contents[parent].hash = Del(@, hash_file_name(name))],
             "Ok", Nil)

\* The hash artifact is read and removed, then the ls artifact its payload
\* names; a missing artifact is an I/O error that stops the removal there.
remove_directory_entry(S, parent, name) ==
    IF ~is_dir(S, parent)
       \/ hash_file_name(name) \notin DOMAIN S.contents[parent].hash
    THEN Out(S, "Io", Nil)
    ELSE Bind(S.contents[parent].hash[hash_file_name(name)].name, LAMBDA enc :
         Bind([S EXCEPT !.contents[parent].hash = Del(@, hash_file_name(name))],
              LAMBDA S1 :
            IF enc \notin DOMAIN S1.contents[parent].ls
            THEN Out(S1, "Io", Nil)
            ELSE Out([S1 EXCEPT !.contents[parent].ls = Del(@, enc)],
                     "Ok", Nil)))

exists_by_name(S, parent, name) ==
    IF ~node_exists(S, parent) THEN Out(S, "InodeNotFound", FALSE)
    ELSE IF ~is_dir(S, parent) THEN Out(S, "InvalidInodeType", FALSE)
    ELSE Out(S, "Ok",
             hash_secret_string(name) \in DOMAIN S.contents[parent].hash)

\* the value is None or Some(attr)
find_by_name(S, parent, name) ==
    IF ~node_exists(S, parent) THEN Out(S, "InodeNotFound", None)
    ELSE IF ~is_dir(S, parent) THEN Out(S, "InvalidInodeType", None)
    ELSE IF hash_secret_string(name) \notin DOMAIN S.contents[parent].hash
    THEN Out(S, "Ok", None)
    ELSE Bind(get_inode_from_cache_or_storage(
                  S, S.contents[parent].hash[hash_secret_string(name)].ino),
              LAMBDA g :
                IF g.res # "Ok" THEN Out(S, g.res, None)
                ELSE Out(g.st, "Ok", Some(g.val)))

\* count - 1 for the root and count - 2 otherwise, on usize: a count below
\* that is an arithmetic overflow.
children_count(S, ino) ==
    IF ~is_dir(S, ino) THEN Out(S, "InvalidInodeType", 0)
    ELSE Bind(Cardinality(DOMAIN S.contents[ino].ls)
                  - (IF ino = ROOT_INODE THEN 1 ELSE 2),
              LAMBDA n :
                IF n < 0 THEN Out(S, "Overflow", 0) ELSE Out(S, "Ok", n))

\* The name create_directory_entry gives to an ls artifact.
EntryName(e) ==
    IF e = "$." THEN "."
    ELSE IF e = "$.." THEN ".."
    ELSE decrypt_file_name(e)

\* The names that an enumeration of read_dir(d) yields.
read_dir_names(S, d) == {EntryName(e) : e \in DOMAIN S.contents[d].ls}

\* The (ino, kind) of the ls artifact e of directory d: the cached pair when
\* the artifact's path is in the cache, the artifact's payload otherwise.
EntryMeta(S, d, e) ==
    IF <<d, e>> \in DOMAIN S.dir_entries_meta_cache
    THEN S.dir_entries_meta_cache[<<d, e>>]
    ELSE [ino |-> S.contents[d].ls[e].ino, kind |-> S.contents[d].ls[e].kind]

create_directory_entry(S, d, e) ==
    [name |-> EntryName(e), ino |-> EntryMeta(S, d, e).ino,
     kind |-> EntryMeta(S, d, e).kind]

\* Every ls artifact of the directory becomes an entry, and every pair read
\* from an artifact is put in the cache. The value is the set of entries.
read_dir(S, ino) ==
    IF ~is_dir(S, ino) THEN Out(S, "InvalidInodeType", {})
    ELSE Out([S EXCEPT !.dir_entries_meta_cache =
                  [k \in DOMAIN @ \cup
                           {<<ino, e>> : e \in DOMAIN S.contents[ino].ls} |->
                      IF k \in DOMAIN @ THEN @[k]
                      ELSE EntryMeta(S, k[1], k[2])]],
             "Ok",
             {create_directory_entry(S, ino, e) :
                  e \in DOMAIN S.contents[ino].ls})

(***************************************************************************)
(* Streaming cipher reader and writer (crate::crypto). A writer keeps the  *)
(* plaintext it has accepted as dirty data and commits it to the content   *)
(* artifact when it is flushed or finished; it may also commit during a    *)
(* write. A reader returns the plaintext of the content artifact.          *)
(***************************************************************************)
Bytes == {1, 2}

Zeros(n) == [i \in 1..n |-> 0]

Take(s, n) == SubSeq(s, 1, Min(n, Len(s)))

Drop(s, n) == SubSeq(s, n + 1, Len(s))

\* data written at offset into base, the gap up to offset filled with zeros
Overlay(base, offset, data) ==
    Bind(IF Len(base) < offset
         THEN base \o Zeros(offset - Len(base))
         ELSE base,
         LAMBDA padded :
            Take(padded, offset) \o data \o Drop(padded, offset + Len(data)))

\* the plaintext of contents/<ino>; an absent file reads as empty
FileData(S, ino) == IF is_file(S, ino) THEN S.contents[ino].data ELSE <<>>

NewReader == [pos |-> 0]

NewWriter == [pos |-> 0, dirty |-> FALSE, buf |-> <<>>]

\* CryptoWriter::write after seek(offset): the data joins the dirty data
WriterWrite(S, ino, w, offset, data) ==
    [pos   |-> offset + Len(data),
     dirty |-> TRUE,
     buf   |-> Overlay(IF w.dirty THEN w.buf ELSE FileData(S, ino),
                       offset, data)]

(***************************************************************************)
(* Handle coherence: EncryptedFs::reset_handles and the writer callback.   *)
(***************************************************************************)
\* the read half: every listed handle but skip_fh whose reader is past pos
\* is rewound to 0
RewindReaders(S, ino, pos, skip_fh) ==
    IF ino \notin DOMAIN S.opened_files_for_read THEN S
    ELSE [S EXCEPT !.read_handles =
            [h \in DOMAIN @ |->
                IF /\ h \in S.opened_files_for_read[ino]
                   /\ h # skip_fh
                   /\ @[h].reader.pos > pos
                THEN [@[h] EXCEPT !.reader.pos = 0]
                ELSE @[h]]]

\* map.get(handle).unwrap() in the read half: a listed handle that
\* read_handles does not hold
ReadersMissing(S, ino, skip_fh) ==
    /\ ino \in DOMAIN S.opened_files_for_read
    /\ \E h \in S.opened_files_for_read[ino] :
          h # skip_fh /\ h \notin DOMAIN S.read_handles

\* skip_fh is 0 for None. A flush inside the callback of a flush nests once:
\* the inner callback skips the writer that opened_files_for_write names.
RECURSIVE reset_handles(_, _, _, _)
RECURSIVE WriterFlush(_, _, _)
RECURSIVE on_file_content_changed(_, _, _, _, _)

\* CryptoWriter::flush of the writer of handle fh (context ctx, which may
\* already have left write_handles): dirty data is committed and the
\* callback runs. The value is the flushed context.
WriterFlush(S, fh, ctx) ==
    IF ~ctx.writer.dirty THEN Out(S, "Ok", ctx)
    ELSE IF is_dir(S, ctx.ino) THEN Out(S, "Io", ctx)
    ELSE
    Bind([ctx EXCEPT !.writer.dirty = FALSE], LAMBDA ctx1 :
    Bind([S EXCEPT
            !.contents = Put(@, ctx.ino, FileContent(ctx.writer.buf)),
            !.write_handles = IF fh \in DOMAIN @ THEN Put(@, fh, ctx1) ELSE @],
         LAMBDA S1 :
    Bind(on_file_content_changed(S1, ctx.ino, 0, Len(ctx.writer.buf), fh),
         LAMBDA cb :
            Out(cb.st, IF cb.res = "Ok" THEN "Ok" ELSE "Io", ctx1))))

\* LocalFileCryptoWriterCallback::on_file_content_changed and the free
\* function reset_handles it calls
on_file_content_changed(S, ino, changed_from_pos, last_write_pos, fh) ==
    Bind(get_inode_from_storage(S, ino), LAMBDA g :
        IF g.res # "Ok" THEN Out(S, g.res, Nil)
        ELSE reset_handles(
                 IF last_write_pos > g.val.size
                 THEN write_inode_to_storage(
                          S, [g.val EXCEPT !.size = last_write_pos])
                 ELSE S,
                 ino, changed_from_pos, fh))

\* the write half of reset_handles, for the handle fh that
\* opened_files_for_write names
ResetWriter(S, ino, fh) ==
    Bind(WriterFlush(S, fh, S.write_handles[fh]), LAMBDA f :
        IF f.res # "Ok" THEN Out(f.st, f.res, Nil)
        ELSE
        Bind([f.st EXCEPT !.write_handles[fh].writer.pos = 0], LAMBDA S1 :
        Bind(get_inode_from_storage(S1, ino), LAMBDA g :
            IF g.res # "Ok" THEN Out(S1, g.res, Nil)
            ELSE Out([S1 EXCEPT !.write_handles[fh].attr.size = g.val.size],
                     "Ok", Nil))))

reset_handles(S, ino, pos, skip_fh) ==
    IF ReadersMissing(S, ino, skip_fh) THEN Out(S, "Panic", Nil)
    ELSE
    Bind(RewindReaders(S, ino, pos, skip_fh), LAMBDA S1 :
        IF ino \notin DOMAIN S1.opened_files_for_write THEN Out(S1, "Ok", Nil)
        ELSE IF \/ S1.opened_files_for_write[ino] = skip_fh
                \/ S1.opened_files_for_write[ino] \notin DOMAIN S1.write_handles
        THEN Out(S1, "Ok", Nil)
        ELSE ResetWriter(S1, ino, S1.opened_files_for_write[ino]))

(***************************************************************************)
(* Handle table.                                                           *)
(***************************************************************************)
\* crypto::create_file_reader opens the content artifact
create_file_reader_ok(S, ino) == is_file(S, ino)

\* do_with_read_handle(handle, Create { ino })
do_with_read_handle(S, handle, ino) ==
    Bind(get_inode_from_storage(S, ino), LAMBDA g :
        IF g.res # "Ok" THEN Out(S, g.res, Nil)
        ELSE IF ~create_file_reader_ok(S, ino) THEN Out(S, "Io", Nil)
        ELSE Out([S EXCEPT
                    !.read_handles =
                        Put(@, handle,
                            [ino |-> ino, attr |-> TimeAndSize(g.val),
                             reader |-> NewReader]),
                    !.opened_files_for_read =
                        Put(@, ino,
                            (IF ino \in DOMAIN @ THEN @[ino] ELSE {})
                                \cup {handle})],
                 "Ok", Nil))

\* do_with_write_handle(handle, Create { ino }): the context is inserted
\* and the mapping of the inode set, whatever they held
do_with_write_handle(S, handle, ino) ==
    Bind(get_inode(S, ino), LAMBDA g :
        IF g.res # "Ok" THEN Out(S, g.res, Nil)
        ELSE Out([g.st EXCEPT
                    !.write_handles =
                        Put(@, handle,
                            [ino |-> ino, attr |-> TimeAndSize(g.val),
                             writer |-> NewWriter]),
                    !.opened_files_for_write = Put(@, ino, handle)],
                 "Ok", Nil))

\* allocate_next_handle: fetch_add(1) returns the value before the add
\* an allocation that returns the counter and leaves it as it is
AllocateSame(S) == Out(S, "Ok", S.current_handle)

allocate_next_handle(S) ==
    Out([S EXCEPT !.current_handle = @ + 1], "Ok", S.current_handle)

\* the write half of open, with the handle the read half may have
\* allocated (0 when it allocated none)
OpenWrite(S, ino, read, handle) ==
    Bind(IF handle = 0 THEN allocate_next_handle(S) ELSE Out(S, "Ok", handle),
         LAMBDA a :
    Bind(do_with_write_handle(a.st, a.val, ino), LAMBDA w :
        IF w.res # "Ok" /\ read
        THEN Out([w.st EXCEPT !.read_handles = Del(@, a.val)],
                 "AlreadyOpenForWrite", 0)
        ELSE IF w.res # "Ok" THEN Out(w.st, w.res, 0)
        ELSE Out(w.st, "Ok", a.val)))

\* the read half of open
OpenRead(S, ino, write) ==
    Bind(allocate_next_handle(S), LAMBDA a :
    Bind(do_with_read_handle(a.st, a.val, ino), LAMBDA r :
        IF r.res # "Ok" THEN Out(r.st, r.res, 0)
        ELSE IF write THEN OpenWrite(r.st, ino, TRUE, a.val)
        ELSE Out(r.st, "Ok", a.val)))

\* do_with_write_handle(handle, Create { ino }) when create_file_writer
\* returns an error: get_inode has run, no context is inserted
WriterNotCreated(S, handle, ino) ==
    Bind(get_inode(S, ino), LAMBDA g :
        IF g.res # "Ok" THEN Out(S, g.res, Nil) ELSE Out(g.st, "Io", Nil))

\* the write half of open when do_with_write_handle fails so
OpenWriteFailing(S, ino, read, handle) ==
    Bind(IF handle = 0 THEN allocate_next_handle(S) ELSE Out(S, "Ok", handle),
         LAMBDA a :
    Bind(WriterNotCreated(a.st, a.val, ino), LAMBDA w :
        IF read
        THEN Out([w.st EXCEPT !.read_handles = Del(@, a.val)],
                 "AlreadyOpenForWrite", 0)
        ELSE Out(w.st, w.res, 0)))

\* open(ino, read, true) when create_file_writer returns an error
open_writer_error(S, ino, read) ==
    IF is_dir(S, ino) THEN Out(S, "InvalidInodeType", 0)
    ELSE IF read
    THEN Bind(allocate_next_handle(S), LAMBDA a :
         Bind(do_with_read_handle(a.st, a.val, ino), LAMBDA r :
            IF r.res # "Ok" THEN Out(r.st, r.res, 0)
            ELSE OpenWriteFailing(r.st, ino, TRUE, a.val)))
    ELSE OpenWriteFailing(S, ino, FALSE, 0)

\* the value is the handle
open(S, ino, read, write) ==
    IF ~read /\ ~write THEN Out(S, "InvalidInput", 0)
    ELSE IF is_dir(S, ino) THEN Out(S, "InvalidInodeType", 0)
    ELSE IF read THEN OpenRead(S, ino, write)
    ELSE OpenWrite(S, ino, FALSE, 0)

\* a read half of release that leaves the handle listed for its inode
ReleaseReadListed(S, handle, ctx) ==
    IF ctx.ino \notin DOMAIN S.opened_files_for_read
    THEN Out([S EXCEPT !.read_handles = Del(@, handle)], "Panic", Nil)
    ELSE update_inode([S EXCEPT !.read_handles = Del(@, handle)],
                      ctx.ino, TimesOnly(ctx.attr))

\* the read half of release, for a context taken out of read_handles
ReleaseRead(S, handle, ctx) ==
    IF ctx.ino \notin DOMAIN S.opened_files_for_read
    THEN Out([S EXCEPT !.read_handles = Del(@, handle)], "Panic", Nil)
    ELSE update_inode(
             [S EXCEPT
                !.read_handles = Del(@, handle),
                !.opened_files_for_read =
                    IF @[ctx.ino] \ {handle} = {}
                    THEN Del(@, ctx.ino)
                    ELSE Put(@, ctx.ino, @[ctx.ino] \ {handle})],
             ctx.ino, TimesOnly(ctx.attr))

\* a write half of release that persists the time fields of the context
\* but not its size
ReleaseWriteTimesOnly(S, handle, ctx) ==
    Bind(WriterFlush([S EXCEPT !.write_handles = Del(@, handle)], handle, ctx),
         LAMBDA f :
            IF f.res # "Ok" THEN Out(f.st, f.res, Nil)
            ELSE update_inode(
                     [f.st EXCEPT !.opened_files_for_write = Del(@, ctx.ino)],
                     ctx.ino, TimesOnly(f.val.attr)))

\* the write half of release, for a context taken out of write_handles
ReleaseWrite(S, handle, ctx) ==
    Bind(WriterFlush([S EXCEPT !.write_handles = Del(@, handle)], handle, ctx),
         LAMBDA f :
            IF f.res # "Ok" THEN Out(f.st, f.res, Nil)
            ELSE update_inode(
                     [f.st EXCEPT !.opened_files_for_write = Del(@, ctx.ino)],
                     ctx.ino, f.val.attr))

release(S, handle) ==
    IF handle = 0 THEN Out(S, "Ok", Nil)
    ELSE
    Bind(IF handle \in DOMAIN S.read_handles
         THEN ReleaseRead(S, handle, S.read_handles[handle])
         ELSE Out(S, "Ok", Nil),
         LAMBDA r :
            IF r.res # "Ok" THEN r
            ELSE IF handle \in DOMAIN r.st.write_handles
            THEN ReleaseWrite(r.st, handle, r.st.write_handles[handle])
            ELSE IF handle \notin DOMAIN S.read_handles
            THEN Out(S, "InvalidFileHandle", Nil)
            ELSE r)

(***************************************************************************)
(* File I/O.                                                               *)
(***************************************************************************)
\* a read that does not compare the inode of the context with ino
ReadAnyHandle(S, ino, offset, n, handle, t) ==
    IF ~node_exists(S, ino) THEN Out(S, "InodeNotFound", <<>>)
    ELSE IF ~is_file(S, ino) THEN Out(S, "InvalidInodeType", <<>>)
    ELSE IF handle \notin DOMAIN S.read_handles
    THEN Out(S, "InvalidFileHandle", <<>>)
    ELSE IF n = 0 THEN Out(S, "Ok", <<>>)
    ELSE
    Bind(FileData(S, ino), LAMBDA data :
        IF offset > Len(data)
        THEN Out([S EXCEPT !.read_handles[handle].reader.pos = Len(data)],
                 "Ok", <<>>)
        ELSE
        Bind(SubSeq(data, offset + 1, Min(offset + n, Len(data))), LAMBDA got :
            Out([S EXCEPT
                   !.read_handles[handle].reader.pos = offset + Len(got),
                   !.read_handles[handle].attr.atime = t],
                "Ok", got)))

\* n is the length of the caller's buffer; the value returned is the
\* sequence of bytes read (its length is the count the code returns).
read(S, ino, offset, n, handle, t) ==
    IF ~node_exists(S, ino) THEN Out(S, "InodeNotFound", <<>>)
    ELSE IF ~is_file(S, ino) THEN Out(S, "InvalidInodeType", <<>>)
    ELSE IF handle \notin DOMAIN S.read_handles
    THEN Out(S, "InvalidFileHandle", <<>>)
    ELSE IF S.read_handles[handle].ino # ino
    THEN Out(S, "InvalidFileHandle", <<>>)
    ELSE IF n = 0 THEN Out(S, "Ok", <<>>)
    ELSE
    Bind(FileData(S, ino), LAMBDA data :
        IF offset > Len(data)
        THEN Out([S EXCEPT !.read_handles[handle].reader.pos = Len(data)],
                 "Ok", <<>>)
        ELSE
        Bind(SubSeq(data, offset + 1, Min(offset + n, Len(data))), LAMBDA got :
            Out([S EXCEPT
                   !.read_handles[handle].reader.pos = offset + Len(got),
                   !.read_handles[handle].attr.atime = t],
                "Ok", got)))

\* the part of write after its checks: data is what the writer accepts
WriteData(S, ino, offset, data, handle, t, spill) ==
    Bind([S.write_handles[handle] EXCEPT
            !.writer = WriterWrite(S, ino, @, offset, data)],
         LAMBDA ctx1 :
    Bind(IF spill
         THEN WriterFlush([S EXCEPT !.write_handles[handle] = ctx1],
                          handle, ctx1)
         ELSE Out([S EXCEPT !.write_handles[handle] = ctx1], "Ok", ctx1),
         LAMBDA f :
            IF f.res # "Ok" THEN Out(f.st, "Io", 0)
            ELSE Out([f.st EXCEPT
                        !.write_handles[handle].attr.size =
                            Max(@, offset + Len(data)),
                        !.write_handles[handle].attr.mtime = t,
                        !.write_handles[handle].attr.ctime = t],
                     "Ok", Len(data))))

\* a write that hands the whole buffer to the writer whatever the offset
WriteUncapped(S, ino, offset, buf, handle, t, acc, spill) ==
    IF ~node_exists(S, ino) THEN Out(S, "InodeNotFound", 0)
    ELSE IF ~is_file(S, ino) THEN Out(S, "InvalidInodeType", 0)
    ELSE IF handle \notin DOMAIN S.write_handles
    THEN Out(S, "InvalidFileHandle", 0)
    ELSE IF S.write_handles[handle].ino # ino
    THEN Out(S, "InvalidFileHandle", 0)
    ELSE IF buf = <<>> THEN Out(S, "Ok", 0)
    ELSE IF offset > MaxPlain THEN Out(S, "MaxFilesizeExceeded", 0)
    ELSE WriteData(S, ino, offset, Take(buf, acc), handle, t, spill)

\* acc is the number of bytes CryptoWriter::write is ready to accept in one
\* call (at least 1), spill whether the writer commits its dirty data during
\* this write. The value returned is the count of bytes accepted.
write(S, ino, offset, buf, handle, t, acc, spill) ==
    IF ~node_exists(S, ino) THEN Out(S, "InodeNotFound", 0)
    ELSE IF ~is_file(S, ino) THEN Out(S, "InvalidInodeType", 0)
    ELSE IF handle \notin DOMAIN S.write_handles
    THEN Out(S, "InvalidFileHandle", 0)
    ELSE IF S.write_handles[handle].ino # ino
    THEN Out(S, "InvalidFileHandle", 0)
    ELSE IF buf = <<>> THEN Out(S, "Ok", 0)
    ELSE IF offset > MaxPlain THEN Out(S, "MaxFilesizeExceeded", 0)
    ELSE WriteData(S, ino, offset,
                   Take(IF offset + Len(buf) > MaxPlain
                        THEN Take(buf, MaxPlain - offset)
                        ELSE buf,
                        acc),
                   handle, t, spill)

\* the loop of copy_file_range: buf holds the len bytes read; every pass
\* writes buf[copied..len] at dest_offset; the value is len
RECURSIVE CopyLoop(_, _, _, _, _, _, _, _, _, _, _)
CopyLoop(S, buf, len, copied, size, dest_ino, dest_offset, dest_fh, t, acc, spill) ==
    IF copied >= size THEN Out(S, "Ok", len)
    ELSE Bind(write(S, dest_ino, dest_offset, SubSeq(buf, copied + 1, len),
                    dest_fh, t, acc, spill),
              LAMBDA w :
                IF w.res # "Ok" THEN Out(w.st, w.res, 0)
                ELSE IF w.val = 0 THEN Out(w.st, "Other", 0)
                ELSE CopyLoop(w.st, buf, len, copied + w.val, size, dest_ino,
                              dest_offset, dest_fh, t, acc, spill))

\* acc and spill are the cipher writer's choices, see write. The value is
\* the count returned.
copy_file_range(S, src_ino, src_offset, dest_ino, dest_offset, size, src_fh, dest_fh, t, acc, spill) ==
    IF is_dir(S, src_ino) \/ is_dir(S, dest_ino)
    THEN Out(S, "InvalidInodeType", 0)
    ELSE Bind(read(S, src_ino, src_offset, size, src_fh, t), LAMBDA r :
            IF r.res # "Ok" THEN Out(r.st, r.res, 0)
            ELSE IF Len(r.val) = 0 THEN Out(r.st, "Ok", 0)
            ELSE CopyLoop(r.st, r.val, Len(r.val), 0, size, dest_ino,
                          dest_offset, dest_fh, t, acc, spill))

\* a flush that returns without flushing the writer
FlushNoWriter(S, handle) ==
    IF handle = 0 \/ handle \in DOMAIN S.write_handles
                 \/ handle \in DOMAIN S.read_handles
    THEN Out(S, "Ok", Nil)
    ELSE Out(S, "InvalidFileHandle", Nil)

flush(S, handle) ==
    IF handle = 0 THEN Out(S, "Ok", Nil)
    ELSE IF handle \in DOMAIN S.write_handles
    THEN Bind(WriterFlush(S, handle, S.write_handles[handle]), LAMBDA f :
            Out(f.st, IF f.res = "Ok" THEN "Ok" ELSE "Io", Nil))
    ELSE IF handle \in DOMAIN S.read_handles THEN Out(S, "Ok", Nil)
    ELSE Out(S, "InvalidFileHandle", Nil)

flush_and_reset_writers(S, ino) ==
    IF /\ ino \in DOMAIN S.opened_files_for_write
       /\ S.opened_files_for_write[ino] \in DOMAIN S.write_handles
    THEN Bind(S.opened_files_for_write[ino], LAMBDA fh :
         Bind(WriterFlush(S, fh, S.write_handles[fh]), LAMBDA f :
            IF f.res # "Ok" THEN Out(f.st, "Io", Nil)
            ELSE Out([f.st EXCEPT !.write_handles[fh].writer.pos = 0],
                     "Ok", Nil)))
    ELSE Out(S, "Ok", Nil)

\* the content artifact rewritten by truncate: Ok with the new content, or
\* an I/O error (the file is missing, or shorter than the bytes to copy)
TruncatedData(S, ino, size, old_size) ==
    IF ~is_file(S, ino) THEN Out(S, "Io", <<>>)
    ELSE IF size = 0 THEN Out(S, "Ok", <<>>)
    ELSE IF Len(S.contents[ino].data) < Min(size, old_size)
    THEN Out(S, "Io", <<>>)
    ELSE Out(S, "Ok",
             Take(S.contents[ino].data, Min(size, old_size))
                 \o Zeros(IF size > old_size THEN size - old_size ELSE 0))

\* the part of truncate after the size check: attr is what get_inode gave
TruncateTo(S, ino, size, attr, t) ==
    Bind(flush_and_reset_writers(S, ino), LAMBDA f :
        IF f.res # "Ok" THEN Out(f.st, f.res, Nil)
        ELSE
        Bind(TruncatedData(f.st, ino, size, attr.size), LAMBDA d :
            IF d.res # "Ok" THEN Out(f.st, d.res, Nil)
            ELSE
            Bind([f.st EXCEPT !.contents[ino] = FileContent(d.val)],
                 LAMBDA S1 :
            Bind(update_inode(S1, ino,
                              [size |-> size, mtime |-> t, ctime |-> t]),
                 LAMBDA u :
                    IF u.res # "Ok" THEN Out(S1, u.res, Nil)
                    ELSE reset_handles(u.st, ino, 0, 0)))))

\* a truncate that rewrites the content whatever the recorded size is
TruncateAlways(S, ino, size, t) ==
    Bind(get_inode(S, ino), LAMBDA g :
        IF g.res # "Ok" THEN Out(S, g.res, Nil)
        ELSE IF g.val.kind = Directory THEN Out(g.st, "InvalidInodeType", Nil)
        ELSE TruncateTo(g.st, ino, size, g.val, t))

truncate(S, ino, size, t) ==
    Bind(get_inode(S, ino), LAMBDA g :
        IF g.res # "Ok" THEN Out(S, g.res, Nil)
        ELSE IF g.val.kind = Directory THEN Out(g.st, "InvalidInodeType", Nil)
        ELSE IF size = g.val.size THEN Out(g.st, "Ok", Nil)
        ELSE TruncateTo(g.st, ino, size, g.val, t))

(***************************************************************************)
(* Tree operations.                                                        *)
(***************************************************************************)
\* the task of create_nod that creates contents/<ino>: File::create for a
\* regular file (fails on a directory), or create_dir with ls/ and hash/
\* and the entries "$." and "$.." (fails when the path exists)
CreateContent(S, ino, kind, parent) ==
    IF kind = RegularFile
    THEN IF is_dir(S, ino) THEN Out(S, "Io", Nil)
         ELSE Out([S EXCEPT !.contents = Put(@, ino, FileContent(<<>>))],
                  "Ok", Nil)
    ELSE IF ino \in DOMAIN S.contents THEN Out(S, "Io", Nil)
    ELSE Bind(insert_directory_entry(
                  [S EXCEPT !.contents = Put(@, ino, DirContent(Empty, Empty))],
                  ino, ino, "$.", Directory),
              LAMBDA e1 :
                insert_directory_entry(e1.st, ino, parent, "$..", Directory))

\* the three tasks create_nod joins: the content artifact, the entry in the
\* parent, the parent's times; the result is the first error among them
CreateTasks(S, parent, name, kind, t, ino) ==
    Bind(CreateContent(S, ino, kind, parent), LAMBDA c :
    Bind(insert_directory_entry(c.st, parent, ino, name, kind), LAMBDA e :
    Bind(update_inode(e.st, parent, [mtime |-> t, ctime |-> t]), LAMBDA u :
        Out(u.st,
            IF c.res # "Ok" THEN c.res
            ELSE IF e.res # "Ok" THEN e.res
            ELSE u.res,
            Nil))))

\* ino is the value generate_next_inode drew: above ROOT_INODE and not the
\* id of an existing inode record. The value is the handle.
create_nod(S, parent, name, kind, rd, wr, t, ino) ==
    IF name = "." \/ name = ".." THEN Out(S, "InvalidInput", 0)
    ELSE IF ~node_exists(S, parent) THEN Out(S, "InodeNotFound", 0)
    ELSE
    Bind(exists_by_name(S, parent, name), LAMBDA ex :
        IF ex.res # "Ok" THEN Out(S, ex.res, 0)
        ELSE IF ex.val THEN Out(S, "AlreadyExists", 0)
        ELSE
        Bind(CreateTasks(write_inode_to_storage(S, NewAttr(ino, kind, t)),
                         parent, name, kind, t, ino),
             LAMBDA k :
        Bind(IF kind = RegularFile /\ (rd \/ wr)
             THEN open(k.st, ino, rd, wr)
             ELSE Out(k.st, "Ok", 0),
             LAMBDA o :
                IF o.res # "Ok" THEN Out(o.st, o.res, 0)
                ELSE IF k.res # "Ok" THEN Out(o.st, k.res, 0)
                ELSE Out(o.st, "Ok", o.val))))

\* a delete that leaves the content artifact where it is
DeleteKeepsContent(S, parent, name, attr, t) ==
    IF attr.ino \notin DOMAIN S.inodes THEN Out(S, "Io", Nil)
    ELSE
    Bind(remove_directory_entry([S EXCEPT !.inodes = Del(@, attr.ino)],
                                parent, name),
         LAMBDA r :
            IF r.res # "Ok" THEN r
            ELSE update_inode(r.st, parent, [mtime |-> t, ctime |-> t]))

\* The task of delete_file and delete_dir once the entry is found: the
\* inode record, the content artifact, the directory entry, the cache
\* (LruCache::demote keeps the entry), the parent's times.
DeleteNode(S, parent, name, attr, t) ==
    IF attr.ino \notin DOMAIN S.inodes THEN Out(S, "Io", Nil)
    ELSE
    Bind([S EXCEPT !.inodes = Del(@, attr.ino)], LAMBDA S1 :
        IF \/ attr.ino \notin DOMAIN S1.contents
           \/ S1.contents[attr.ino].kind # attr.kind
        THEN Out(S1, "Io", Nil)
        ELSE
        Bind(remove_directory_entry(
                 [S1 EXCEPT !.contents = Del(@, attr.ino)], parent, name),
             LAMBDA r :
                IF r.res # "Ok" THEN r
                ELSE update_inode(r.st, parent, [mtime |-> t, ctime |-> t])))

\* a removal of the directory found that does not look at its children
DeleteDirAny(S, parent, name, t) ==
    Bind(find_by_name(S, parent, name), LAMBDA f :
        IF f.res # "Ok" THEN Out(f.st, f.res, Nil)
        ELSE IF f.val = None THEN Out(f.st, "NotFound", Nil)
        ELSE IF f.val[1].kind # Directory
        THEN Out(f.st, "InvalidInodeType", Nil)
        ELSE DeleteNode(f.st, parent, name, f.val[1], t))

\* the part of delete_dir after the name is known to exist
DeleteDirFound(S, parent, name, t) ==
    Bind(find_by_name(S, parent, name), LAMBDA f :
        IF f.res # "Ok" THEN Out(f.st, f.res, Nil)
        ELSE IF f.val = None THEN Out(f.st, "NotFound", Nil)
        ELSE IF f.val[1].kind # Directory
        THEN Out(f.st, "InvalidInodeType", Nil)
        ELSE
        Bind(children_count(f.st, f.val[1].ino), LAMBDA cc :
            IF cc.res # "Ok" THEN Out(f.st, cc.res, Nil)
            ELSE IF cc.val > 0 THEN Out(f.st, "NotEmpty", Nil)
            ELSE DeleteNode(f.st, parent, name, f.val[1], t)))

delete_dir(S, parent, name, t) ==
    IF ~is_dir(S, parent) THEN Out(S, "InvalidInodeType", Nil)
    ELSE
    Bind(exists_by_name(S, parent, name), LAMBDA ex :
        IF ex.res # "Ok" THEN Out(S, ex.res, Nil)
        ELSE IF ~ex.val THEN Out(S, "NotFound", Nil)
        ELSE DeleteDirFound(S, parent, name, t))

delete_file(S, parent, name, t) ==
    IF ~is_dir(S, parent) THEN Out(S, "InvalidInodeType", Nil)
    ELSE
    Bind(exists_by_name(S, parent, name), LAMBDA ex :
        IF ex.res # "Ok" THEN Out(S, ex.res, Nil)
        ELSE IF ~ex.val THEN Out(S, "NotFound", Nil)
        ELSE
        Bind(find_by_name(S, parent, name), LAMBDA f :
            IF f.res # "Ok" THEN Out(f.st, f.res, Nil)
            ELSE IF f.val = None THEN Out(f.st, "NotFound", Nil)
            ELSE IF f.val[1].kind # RegularFile
            THEN Out(f.st, "InvalidInodeType", Nil)
            ELSE DeleteNode(f.st, parent, name, f.val[1], t)))

\* the check of rename on the destination: an existing non-empty directory
RenameTargetCheck(S, new_parent, new_name) ==
    Bind(find_by_name(S, new_parent, new_name), LAMBDA f :
        IF f.res # "Ok" THEN Out(f.st, "Ok", Nil)
        ELSE IF f.val = None THEN Out(f.st, "Ok", Nil)
        ELSE IF f.val[1].kind # Directory THEN Out(f.st, "Ok", Nil)
        ELSE
        Bind(children_count(f.st, f.val[1].ino), LAMBDA cc :
            IF cc.res # "Ok" THEN Out(f.st, cc.res, Nil)
            ELSE IF cc.val > 0 THEN Out(f.st, "NotEmpty", Nil)
            ELSE Out(f.st, "Ok", Nil)))

\* the moves of rename for the entry found (attr): out of parent, into
\* new_parent, the two get_inode calls, the "$.." link of a directory
RenameEntry(S, parent, name, new_parent, new_name, attr) ==
    Bind(remove_directory_entry(S, parent, name), LAMBDA r :
        IF r.res # "Ok" THEN r
        ELSE
        Bind(insert_directory_entry(r.st, new_parent, attr.ino, new_name,
                                    attr.kind),
             LAMBDA i :
            IF i.res # "Ok" THEN i
            ELSE
            Bind(get_inode(i.st, parent), LAMBDA g1 :
                IF g1.res # "Ok" THEN Out(i.st, g1.res, Nil)
                ELSE
                Bind(get_inode(g1.st, new_parent), LAMBDA g2 :
                    IF g2.res # "Ok" THEN Out(g1.st, g2.res, Nil)
                    ELSE IF attr.kind = Directory
                    THEN insert_directory_entry(g2.st, attr.ino, new_parent,
                                                "$..", Directory)
                    ELSE Out(g2.st, "Ok", Nil)))))

rename(S, parent, name, new_parent, new_name) ==
    IF ~node_exists(S, parent) THEN Out(S, "InodeNotFound", Nil)
    ELSE IF ~is_dir(S, parent) THEN Out(S, "InvalidInodeType", Nil)
    ELSE IF ~node_exists(S, new_parent) THEN Out(S, "InodeNotFound", Nil)
    ELSE IF ~is_dir(S, new_parent) THEN Out(S, "InvalidInodeType", Nil)
    ELSE IF ~exists_by_name(S, parent, name).val THEN Out(S, "NotFound", Nil)
    ELSE IF parent = new_parent /\ name = new_name THEN Out(S, "Ok", Nil)
    ELSE
    Bind(RenameTargetCheck(S, new_parent, new_name), LAMBDA tc :
        IF tc.res # "Ok" THEN tc
        ELSE
        Bind(find_by_name(tc.st, parent, name), LAMBDA f :
            IF f.res # "Ok" THEN Out(f.st, f.res, Nil)
            ELSE IF f.val = None THEN Out(f.st, "NotFound", Nil)
            ELSE RenameEntry(f.st, parent, name, new_parent, new_name,
                             f.val[1])))

\* a caller that has no call in progress
Idle == [op |-> "idle"]

(***************************************************************************)
(* Construction: EncryptedFs::new on an empty data directory.              *)
(***************************************************************************)
\* the passwords of callers; the values the random generator draws for
\* a salt and a master key are named by the strings below
Passwords == {"p", "q", "r"}

\* a data directory that is absent or empty: dirs tells whether inodes/,
\* contents/ and security/ exist, salt and key_enc are the files of
\* security/
NoSecurity == [dirs |-> FALSE, salt |-> Nil, key_enc |-> None]

\* crypto::derive_key: a function of the password and the salt, different
\* for different arguments
derive_key(password, salt) == <<password, salt>>

\* crypto::create_reader over key.enc and bincode::deserialize_from: the
\* master key comes out under the key it was encrypted with, and nothing
\* under another key
ReadKey(sec, derived_key) ==
    IF sec.key_enc # None /\ sec.key_enc[1].wrap = derived_key
    THEN [res |-> "Ok", key |-> sec.key_enc[1].key]
    ELSE [res |-> "InvalidPassword", key |-> Nil]

\* new_salt and new_key are what the random generator gives when the salt
\* or the key file is missing
read_or_create_key(sec, password, new_salt, new_key) ==
    Bind(IF sec.salt # Nil THEN sec.salt ELSE new_salt, LAMBDA salt :
    Bind(derive_key(password, salt), LAMBDA derived_key :
        IF sec.key_enc # None
        THEN Bind(ReadKey(sec, derived_key), LAMBDA k :
                [sec |-> [sec EXCEPT !.salt = salt],
                 res |-> k.res, key |-> k.key])
        ELSE [sec |-> [sec EXCEPT
                         !.salt = salt,
                         !.key_enc = Some([wrap |-> derived_key,
                                           key |-> new_key])],
              res |-> "Ok", key |-> new_key]))

\* KeyProvider::provide: a provider that yields no password (Nil) is an
\* InvalidPassword before any file of security/ is read or written
provide(sec, password, new_salt, new_key) ==
    IF password = Nil
    THEN [sec |-> sec, res |-> "InvalidPassword", key |-> Nil]
    ELSE read_or_create_key(sec, password, new_salt, new_key)

\* ensure_structure_created: a data directory that has entries must pass
\* check_structure(data_dir, true), which wants the three directories and
\* the key and salt files; then the missing directories are created
ensure_structure_created(sec) ==
    IF sec.dirs /\ (sec.salt = Nil \/ sec.key_enc = None)
    THEN [sec |-> sec, res |-> "InvalidDataDirStructure"]
    ELSE [sec |-> [sec EXCEPT !.dirs = TRUE], res |-> "Ok"]

\* check_structure(data_dir, false): the key and salt files are there
check_structure(sec) == sec.salt # Nil /\ sec.key_enc # None

\* a change of password that leaves the key file as it is
ChangeNothing(sec, old_password, new_password) ==
    IF ~check_structure(sec)
    THEN [sec |-> sec, res |-> "InvalidDataDirStructure"]
    ELSE [sec |-> sec,
          res |-> ReadKey(sec, derive_key(old_password, sec.salt)).res]

change_password(sec, old_password, new_password) ==
    IF ~check_structure(sec)
    THEN [sec |-> sec, res |-> "InvalidDataDirStructure"]
    ELSE Bind(ReadKey(sec, derive_key(old_password, sec.salt)), LAMBDA k :
            IF k.res # "Ok" THEN [sec |-> sec, res |-> "InvalidPassword"]
            ELSE [sec |-> [sec EXCEPT
                             !.key_enc =
                                 Some([wrap |-> derive_key(new_password,
                                                           sec.salt),
                                       key  |-> k.key])],
                  res |-> "Ok"])

NoState ==
    [inodes |-> Empty, attr_cache |-> Empty, contents |-> Empty,
     read_handles |-> Empty, write_handles |-> Empty,
     opened_files_for_read |-> Empty, opened_files_for_write |-> Empty,
     current_handle |-> 1, dir_entries_meta_cache |-> Empty,
     security |-> NoSecurity]

ensure_root_exists(S, t) ==
    IF node_exists(S, ROOT_INODE) THEN Out(S, "Ok", Nil)
    ELSE insert_directory_entry(
             [write_inode_to_storage(S, NewAttr(ROOT_INODE, Directory, t))
                 EXCEPT !.contents =
                     Put(@, ROOT_INODE, DirContent(Empty, Empty))],
             ROOT_INODE, ROOT_INODE, "$.", Directory)

\* EncryptedFs::new on the data directory of S: the key is read (or
\* created) with the password, and the new instance starts with empty
\* handle tables and caches. The value is the master key.
new(S, password, new_salt, new_key, t) ==
    Bind(ensure_structure_created(S.security), LAMBDA d :
    IF d.res # "Ok" THEN Out(S, d.res, Nil)
    ELSE
    Bind(provide(d.sec, password, new_salt, new_key), LAMBDA k :
        IF k.res # "Ok" THEN Out([S EXCEPT !.security = k.sec], k.res, Nil)
        ELSE Bind(ensure_root_exists(
                      [S EXCEPT !.security = k.sec,
                                !.attr_cache = Empty,
                                !.dir_entries_meta_cache = Empty,
                                !.read_handles = Empty,
                                !.write_handles = Empty,
                                !.opened_files_for_read = Empty,
                                !.opened_files_for_write = Empty,
                                !.current_handle = 1], t),
                  LAMBDA e : Out(e.st, e.res, k.key))))

Init ==
    /\ \E o \in {new(NoState, "p", "salt0", "key0", 0)} :
          /\ inodes = o.st.inodes
          /\ attr_cache = o.st.attr_cache
          /\ contents = o.st.contents
          /\ read_handles = o.st.read_handles
          /\ write_handles = o.st.write_handles
          /\ opened_files_for_read = o.st.opened_files_for_read
          /\ opened_files_for_write = o.st.opened_files_for_write
          /\ current_handle = o.st.current_handle
          /\ dir_entries_meta_cache = o.st.dir_entries_meta_cache
          /\ security = o.st.security
    /\ now = 0
    /\ ret = [op |-> "new", res |-> "Ok"]
    /\ calls = 0
    /\ tasks = [p \in Procs |-> Idle]

(***************************************************************************)
(* The calls of the public API, each one whole and atomic: o is the        *)
(* outcome of the handler on the current state.  ret records the last call *)
(* and its result, calls counts the calls made.                            *)
(***************************************************************************)
Called(op, o) ==
    /\ Install(o.st)
    /\ calls' = calls + 1
    /\ ret' = [op |-> op, res |-> o.res]
    /\ UNCHANGED <<now, tasks>>

\* SystemTime::now() moves on between calls
Tick ==
    /\ now < MaxTime
    /\ now' = now + 1
    /\ UNCHANGED <<inodes, attr_cache, contents, read_handles, write_handles,
                   opened_files_for_read, opened_files_for_write,
                   current_handle, dir_entries_meta_cache, security, ret,
                   calls, tasks>>

\* the attribute cache drops its entries when its time to live runs out
ExpireCache ==
    /\ attr_cache # Empty
    /\ attr_cache' = Empty
    /\ UNCHANGED <<inodes, contents, read_handles, write_handles,
                   opened_files_for_read, opened_files_for_write,
                   current_handle, dir_entries_meta_cache, security, now, ret,
                   calls, tasks>>

\* the directory entry cache drops its entries when its time to live runs out
ExpireMetaCache ==
    /\ dir_entries_meta_cache # Empty
    /\ dir_entries_meta_cache' = Empty
    /\ UNCHANGED <<inodes, attr_cache, contents, read_handles, write_handles,
                   opened_files_for_read, opened_files_for_write,
                   current_handle, security, now, ret, calls, tasks>>

\* the numbers generate_next_inode can return: those with no inode record
FreeInos == {i \in Inos \ {ROOT_INODE} : i \notin DOMAIN inodes}

\* ino 0 stands for a call that fails before an inode number is generated
CreateNod(parents, names, kinds, flags) ==
    /\ calls < MaxCalls
    /\ \E parent \in parents, name \in names, kind \in kinds, f \in flags :
       \E ino \in IF FreeInos = {} THEN {0} ELSE FreeInos :
       \E o \in {create_nod(Cur, parent, name, kind, f[1], f[2], now, ino)} :
           /\ ino = 0 => o.res \in {"InvalidInput", "InodeNotFound",
                                    "InvalidInodeType", "AlreadyExists"}
           /\ (kind = RegularFile /\ (f[1] \/ f[2])) => current_handle <= MaxHandle
           /\ Called("create_nod", o)

DeleteFile(parents, names) ==
    /\ calls < MaxCalls
    /\ \E parent \in parents, name \in names :
       \E o \in {delete_file(Cur, parent, name, now)} :
           Called("delete_file", o)

DeleteDir(parents, names) ==
    /\ calls < MaxCalls
    /\ \E parent \in parents, name \in names :
       \E o \in {delete_dir(Cur, parent, name, now)} :
           Called("delete_dir", o)

Rename(parents, names) ==
    /\ calls < MaxCalls
    /\ \E parent \in parents, name \in names,
          new_parent \in parents, new_name \in names :
       \E o \in {rename(Cur, parent, name, new_parent, new_name)} :
           Called("rename", o)

ReadDir(inos) ==
    /\ calls < MaxCalls
    /\ \E ino \in inos :
       \E o \in {read_dir(Cur, ino)} :
           Called("read_dir", o)

UpdateInode(inos, set_attrs) ==
    /\ calls < MaxCalls
    /\ \E ino \in inos, set_attr \in set_attrs :
       \E o \in {update_inode(Cur, ino, set_attr)} :
           Called("update_inode", o)

Open(inos, flags) ==
    /\ calls < MaxCalls
    /\ \E ino \in inos, f \in flags :
       \E o \in {open(Cur, ino, f[1], f[2])} :
           /\ current_handle <= MaxHandle
           /\ Called("open", o)

\* an open for writing whose create_file_writer returns an error
OpenWriterError(inos, reads) ==
    /\ calls < MaxCalls
    /\ \E ino \in inos, rd \in reads :
       \E o \in {open_writer_error(Cur, ino, rd)} :
           /\ current_handle <= MaxHandle
           /\ Called("open", o)

Release(fhs) ==
    /\ calls < MaxCalls
    /\ \E handle \in fhs :
       \E o \in {release(Cur, handle)} :
           Called("release", o)

Read(inos, offsets, lens, fhs) ==
    /\ calls < MaxCalls
    /\ \E ino \in inos, offset \in offsets, n \in lens, handle \in fhs :
       \E o \in {read(Cur, ino, offset, n, handle, now)} :
           Called("read", o)

\* acc and spill are the cipher writer's choices, see write
Write(inos, offsets, bufs, fhs) ==
    /\ calls < MaxCalls
    /\ \E ino \in inos, offset \in offsets, buf \in bufs, handle \in fhs :
       \E acc \in 1..Max(1, Len(buf)), spill \in BOOLEAN :
       \E o \in {write(Cur, ino, offset, buf, handle, now, acc, spill)} :
           Called("write", o)

Flush(fhs) ==
    /\ calls < MaxCalls
    /\ \E handle \in fhs :
       \E o \in {flush(Cur, handle)} :
           Called("flush", o)

Truncate(inos, sizes) ==
    /\ calls < MaxCalls
    /\ \E ino \in inos, size \in sizes :
       \E o \in {truncate(Cur, ino, size, now)} :
           Called("truncate", o)

CopyFileRange(inos, offsets, sizes, fhs) ==
    /\ calls < MaxCalls
    /\ \E src_ino \in inos, dest_ino \in inos, src_offset \in offsets,
          dest_offset \in offsets, size \in sizes, src_fh \in fhs,
          dest_fh \in fhs :
       \E acc \in 1..MaxPlain, spill \in BOOLEAN :
       \E o \in {copy_file_range(Cur, src_ino, src_offset, dest_ino,
                                 dest_offset, size, src_fh, dest_fh, now,
                                 acc, spill)} :
           Called("copy_file_range", o)

\* change_password on the data directory
ChangePassword(olds, news) ==
    /\ calls < MaxCalls
    /\ \E old_password \in olds, new_password \in news :
       \E c \in {change_password(security, old_password, new_password)} :
           Called("change_password",
                  Out([Cur EXCEPT !.security = c.sec], c.res, Nil))

\* the data directory is mounted again: EncryptedFs::new with a password
Mount(passwords) ==
    /\ calls < MaxCalls
    /\ \E password \in passwords :
       \E o \in {new(Cur, password, "salt1", "key1", now)} :
           Called("new", o)

(***************************************************************************)
(* Calls that run concurrently.  A call of caller p advances one step at a *)
(* time, a step being the code between two points where the task can be   *)
(* suspended with no lock held; tasks[p].pc names the step it is about to  *)
(* take and tasks[p].res its result once it is done.                       *)
(***************************************************************************)
Step(p, S, task) ==
    /\ Install(S)
    /\ tasks' = [tasks EXCEPT ![p] = task]
    /\ UNCHANGED <<now, ret, calls>>

At(p, op, pc) == tasks[p].op = op /\ tasks[p].pc = pc

Done(task, res) == [task EXCEPT !.pc = "done", !.res = res]

\* no call in progress holds a lock or has a step left to take
Quiescent ==
    \A p \in Procs : IF tasks[p].op = "idle" THEN TRUE ELSE tasks[p].pc = "done"

\* a mutex that excludes nobody
MutexNeverHeld(ino) == TRUE

\* serialize_update_inode_locks: the mutex of ino is free when no
\* update_inode call is between its lock().await and its return, and no
\* writer callback is inside the block of reset_handles that holds it
UpdateMutexFree(ino) ==
    \A q \in Procs :
        /\ ~(/\ tasks[q].op = "update_inode"
             /\ tasks[q].ino = ino
             /\ tasks[q].pc \in {"get", "write", "cache"})
        /\ ~(/\ tasks[q].op \in {"write", "flush"}
             /\ tasks[q].ino = ino
             /\ tasks[q].pc = "cb_held")

\* the mutex of the write context of handle fh is free when no write or
\* flush call is between its ctx.lock().await and its return
CtxMutexFree(fh) ==
    \A q \in Procs :
        ~(/\ tasks[q].op \in {"write", "flush"}
          /\ tasks[q].handle = fh
          /\ tasks[q].pc \in {"io", "cb_lock", "cb_held"})

\* get_inode locks the context of the write handle that
\* opened_files_for_write names for ino, when write_handles holds it
WriterMutexFree(ino) ==
    (/\ ino \in DOMAIN opened_files_for_write
     /\ opened_files_for_write[ino] \in DOMAIN write_handles)
        => CtxMutexFree(opened_files_for_write[ino])

\* update_inode(ino, set_attr) is called
UpdateCall(inos, set_attrs) ==
    \E p \in Procs, ino \in inos, set_attr \in set_attrs :
        /\ tasks[p] = Idle
        /\ Step(p, Cur, [op |-> "update_inode", pc |-> "lock", ino |-> ino,
                         set_attr |-> set_attr, attr |-> Nil,
                         res |-> "Pending"])

\* lock_serialize_update.lock().await
UpdateLock ==
    \E p \in Procs :
        /\ At(p, "update_inode", "lock")
        /\ UpdateMutexFree(tasks[p].ino)
        /\ Step(p, Cur, [tasks[p] EXCEPT !.pc = "get"])

\* get_inode(ino) and merge_attr
UpdateGet ==
    \E p \in Procs :
        /\ At(p, "update_inode", "get")
        /\ WriterMutexFree(tasks[p].ino)
        /\ \E g \in {get_inode(Cur, tasks[p].ino)} :
              Step(p, g.st,
                   IF g.res = "Ok"
                   THEN [tasks[p] EXCEPT
                           !.pc = "write",
                           !.attr = merge_attr(g.val, tasks[p].set_attr)]
                   ELSE Done(tasks[p], g.res))

\* write_inode_to_storage: the record is written under the inode's lock
UpdateWrite ==
    \E p \in Procs :
        /\ At(p, "update_inode", "write")
        /\ Step(p, [Cur EXCEPT !.inodes = Put(@, tasks[p].ino, tasks[p].attr)],
                [tasks[p] EXCEPT !.pc = "cache"])

\* write_inode_to_storage: the cache entry is put; the call returns and
\* its guard is dropped
UpdateCache ==
    \E p \in Procs :
        /\ At(p, "update_inode", "cache")
        /\ Step(p, [Cur EXCEPT
                      !.attr_cache = Put(@, tasks[p].ino, tasks[p].attr)],
                Done(tasks[p], "Ok"))

\* release(handle) is called, with a handle other than 0
ReleaseCall(fhs) ==
    \E p \in Procs, handle \in fhs :
        /\ tasks[p] = Idle
        /\ Step(p, Cur, [op |-> "release", pc |-> "read", handle |-> handle,
                         ctx |-> Nil, valid_fh |-> FALSE, res |-> "Pending"])

\* read_handles.write().await.remove(&handle)
ReleaseTakeReader ==
    \E p \in Procs :
        /\ At(p, "release", "read")
        /\ IF tasks[p].handle \in DOMAIN read_handles
           THEN Step(p, [Cur EXCEPT !.read_handles = Del(@, tasks[p].handle)],
                     [tasks[p] EXCEPT !.pc = "read_unlist",
                                      !.ctx = read_handles[tasks[p].handle]])
           ELSE Step(p, Cur, [tasks[p] EXCEPT !.pc = "write"])

\* the handle leaves opened_files_for_read
ReleaseUnlistReader ==
    \E p \in Procs :
        /\ At(p, "release", "read_unlist")
        /\ \E ino \in {tasks[p].ctx.ino}, handle \in {tasks[p].handle} :
              IF ino \notin DOMAIN opened_files_for_read
              THEN Step(p, Cur, Done(tasks[p], "Panic"))
              ELSE Step(p, [Cur EXCEPT
                              !.opened_files_for_read =
                                  IF @[ino] \ {handle} = {}
                                  THEN Del(@, ino)
                                  ELSE Put(@, ino, @[ino] \ {handle})],
                        [tasks[p] EXCEPT !.pc = "read_update"])

\* update_inode with the time fields of the read context
ReleaseReaderAttr ==
    \E p \in Procs :
        /\ At(p, "release", "read_update")
        /\ UpdateMutexFree(tasks[p].ctx.ino)
        /\ \E u \in {update_inode(Cur, tasks[p].ctx.ino,
                                  TimesOnly(tasks[p].ctx.attr))} :
              Step(p, u.st,
                   IF u.res = "Ok"
                   THEN [tasks[p] EXCEPT !.pc = "write", !.valid_fh = TRUE]
                   ELSE Done(tasks[p], u.res))

\* write_handles.write().await.remove(&handle); without a write context
\* the call returns
ReleaseTakeWriter ==
    \E p \in Procs :
        /\ At(p, "release", "write")
        /\ IF tasks[p].handle \in DOMAIN write_handles
           THEN Step(p, [Cur EXCEPT !.write_handles = Del(@, tasks[p].handle)],
                     [tasks[p] EXCEPT !.pc = "flush",
                                      !.ctx = write_handles[tasks[p].handle]])
           ELSE Step(p, Cur,
                     Done(tasks[p], IF tasks[p].valid_fh THEN "Ok"
                                    ELSE "InvalidFileHandle"))

\* writer.flush() and writer.finish()
ReleaseFlushWriter ==
    \E p \in Procs :
        /\ At(p, "release", "flush")
        /\ \E f \in {WriterFlush(Cur, tasks[p].handle, tasks[p].ctx)} :
              Step(p, f.st,
                   IF f.res = "Ok"
                   THEN [tasks[p] EXCEPT !.pc = "write_unlist", !.ctx = f.val]
                   ELSE Done(tasks[p], f.res))

\* opened_files_for_write.write().await.remove(&ctx.ino)
ReleaseUnlistWriter ==
    \E p \in Procs :
        /\ At(p, "release", "write_unlist")
        /\ Step(p, [Cur EXCEPT
                      !.opened_files_for_write = Del(@, tasks[p].ctx.ino)],
                [tasks[p] EXCEPT !.pc = "write_update"])

\* update_inode with the time fields and the size of the write context
ReleaseWriterAttr ==
    \E p \in Procs :
        /\ At(p, "release", "write_update")
        /\ UpdateMutexFree(tasks[p].ctx.ino)
        /\ \E u \in {update_inode(Cur, tasks[p].ctx.ino, tasks[p].ctx.attr)} :
              Step(p, u.st, Done(tasks[p], u.res))

\* a caller calls get_inode(ino), again and again; tasks[p].attr is the
\* record its last call returned
ObserveInode(inos) ==
    \E p \in Procs, ino \in inos :
        /\ tasks[p].op \in {"idle", "get_inode"}
        /\ tasks[p].op = "get_inode" => tasks[p].ino = ino
        /\ WriterMutexFree(ino)
        /\ \E g \in {get_inode(Cur, ino)} :
              /\ g.res = "Ok"
              /\ Step(p, g.st,
                      [op |-> "get_inode", pc |-> "done", ino |-> ino,
                       attr |-> g.val, res |-> "Ok"])

\* the mutex of the attribute cache is free when no get_inode call is
\* between its cache miss and the put of the record it reads
CacheMutexFree ==
    \A q \in Procs : ~At(q, "get_inode", "storage") /\ ~At(q, "get_inode", "put")

\* get_inode(ino) is called: get_inode_from_cache_or_storage locks the
\* cache; on a hit the call completes, on a miss get_inode_from_storage
\* starts and creates the future of lock.read(), which it never awaits
GetInodeCall(inos) ==
    \E p \in Procs, ino \in inos :
        /\ tasks[p] = Idle
        /\ CacheMutexFree
        /\ WriterMutexFree(ino)
        /\ IF ino \in DOMAIN attr_cache
           THEN \E g \in {get_inode(Cur, ino)} :
                   Step(p, g.st, [op |-> "get_inode", pc |-> "done",
                                  ino |-> ino, attr |-> g.val, res |-> g.res])
           ELSE Step(p, Cur, [op |-> "get_inode", pc |-> "storage",
                              ino |-> ino, attr |-> Nil, res |-> "Pending"])

\* get_inode_from_storage reads the record file
GetInodeStorage ==
    \E p \in Procs :
        /\ At(p, "get_inode", "storage")
        /\ \E g \in {get_inode_from_storage(Cur, tasks[p].ino)} :
              Step(p, Cur,
                   IF g.res # "Ok" THEN Done(tasks[p], g.res)
                   ELSE [tasks[p] EXCEPT !.pc = "put", !.attr = g.val])

\* the record read is put in the cache and the cache is unlocked; get_inode
\* merges the attributes of the handles into what it returns
GetInodePut ==
    \E p \in Procs :
        /\ At(p, "get_inode", "put")
        /\ WriterMutexFree(tasks[p].ino)
        /\ \E g \in {get_inode([Cur EXCEPT !.attr_cache =
                                    Put(@, tasks[p].ino, tasks[p].attr)],
                                tasks[p].ino)} :
              Step(p, g.st, [tasks[p] EXCEPT !.pc = "done", !.attr = g.val,
                                            !.res = g.res])

\* open(ino, read, write) is called: its checks, and allocate_next_handle
OpenCall(inos, flags) ==
    \E p \in Procs, ino \in inos, f \in flags :
    \E call \in {[op |-> "open", pc |-> "register", ino |-> ino,
                     rd |-> f[1], wr |-> f[2], handle |-> 0,
                     res |-> "Pending"]} :
        /\ tasks[p] = Idle
        /\ current_handle <= MaxHandle
        /\ IF ~f[1] /\ ~f[2] THEN Step(p, Cur, Done(call, "InvalidInput"))
           ELSE IF is_dir(Cur, ino)
           THEN Step(p, Cur, Done(call, "InvalidInodeType"))
           ELSE \E a \in {allocate_next_handle(Cur)} :
                   Step(p, a.st, [call EXCEPT !.handle = a.val])

\* the contexts are created and registered under the handle allocated
OpenRegister ==
    \E p \in Procs :
        /\ At(p, "open", "register")
        /\ \E r \in {IF tasks[p].rd
                      THEN do_with_read_handle(Cur, tasks[p].handle,
                                               tasks[p].ino)
                      ELSE Out(Cur, "Ok", Nil)} :
           \E o \in {IF r.res # "Ok" THEN r
                      ELSE IF tasks[p].wr
                      THEN OpenWrite(r.st, tasks[p].ino, tasks[p].rd,
                                     tasks[p].handle)
                      ELSE r} :
              Step(p, o.st, Done(tasks[p], o.res))

\* a task of a create_nod call has finished with result res: the call
\* returns when its tasks are joined, with the first error among them
Joined(task, name, res) ==
    [task EXCEPT
        !.pending = @ \ {name},
        !.pc  = IF task.pending \ {name} = {} THEN "done" ELSE "tasks",
        !.res = IF @ # "Pending" THEN @
                ELSE IF res # "Ok" THEN res
                ELSE IF task.pending \ {name} = {} THEN "Ok"
                ELSE "Pending"]

\* create_nod(parent, name, kind, false, false) is called: its checks
CreateCall(parents, names, kinds) ==
    \E p \in Procs, parent \in parents, name \in names, kind \in kinds :
        /\ tasks[p] = Idle
        /\ \E call \in {[op |-> "create_nod", pc |-> "inode",
                         parent |-> parent, name |-> name, kind |-> kind,
                         ino |-> 0, pending |-> {}, res |-> "Pending"]} :
              IF name = "." \/ name = ".."
              THEN Step(p, Cur, Done(call, "InvalidInput"))
              ELSE IF ~node_exists(Cur, parent)
              THEN Step(p, Cur, Done(call, "InodeNotFound"))
              ELSE \E ex \in {exists_by_name(Cur, parent, name)} :
                      Step(p, Cur,
                           IF ex.res # "Ok" THEN Done(call, ex.res)
                           ELSE IF ex.val THEN Done(call, "AlreadyExists")
                           ELSE call)

\* generate_next_inode and write_inode_to_storage; the tasks are spawned
CreateInode ==
    \E p \in Procs, ino \in FreeInos :
        /\ At(p, "create_nod", "inode")
        /\ Step(p,
                write_inode_to_storage(Cur, NewAttr(ino, tasks[p].kind, now)),
                [tasks[p] EXCEPT
                    !.pc = "tasks", !.ino = ino,
                    !.pending = {"content", "ls", "hash", "parent"}])

\* the task that creates the content artifact: the file, or the directory
\* with its empty ls/ and hash/, whose entries "$." and "$.." are inserted
\* next
CreateContentTask ==
    \E p \in Procs :
        /\ At(p, "create_nod", "tasks")
        /\ "content" \in tasks[p].pending
        /\ IF tasks[p].kind = RegularFile
           THEN \E c \in {CreateContent(Cur, tasks[p].ino, RegularFile,
                                        tasks[p].parent)} :
                   Step(p, c.st, Joined(tasks[p], "content", c.res))
           ELSE IF tasks[p].ino \in DOMAIN contents
           THEN Step(p, Cur, Joined(tasks[p], "content", "Io"))
           ELSE Step(p, [Cur EXCEPT !.contents =
                            Put(@, tasks[p].ino, DirContent(Empty, Empty))],
                     [tasks[p] EXCEPT
                         !.pending = (@ \ {"content"}) \cup {"dots"}])

\* the same task, after the directories are created: "$." and "$.." are
\* inserted
CreateDotsTask ==
    \E p \in Procs :
        /\ At(p, "create_nod", "tasks")
        /\ "dots" \in tasks[p].pending
        /\ \E e1 \in {insert_directory_entry(Cur, tasks[p].ino, tasks[p].ino,
                                              "$.", Directory)} :
           \E e2 \in {IF e1.res # "Ok" THEN e1
                      ELSE insert_directory_entry(e1.st, tasks[p].ino,
                                                  tasks[p].parent, "$..",
                                                  Directory)} :
              Step(p, e2.st, Joined(tasks[p], "dots", e2.res))

\* the task of insert_directory_entry that writes the ls artifact
CreateLsTask ==
    \E p \in Procs :
        /\ At(p, "create_nod", "tasks")
        /\ "ls" \in tasks[p].pending
        /\ IF ~is_dir(Cur, tasks[p].parent)
           THEN Step(p, Cur, Joined(tasks[p], "ls", "Io"))
           ELSE Step(p, WriteLsArtifact(Cur, tasks[p].parent, tasks[p].ino,
                                        tasks[p].name, tasks[p].kind),
                     Joined(tasks[p], "ls", "Ok"))

\* the task of insert_directory_entry that writes the hash artifact
CreateHashTask ==
    \E p \in Procs :
        /\ At(p, "create_nod", "tasks")
        /\ "hash" \in tasks[p].pending
        /\ IF ~is_dir(Cur, tasks[p].parent)
           THEN Step(p, Cur, Joined(tasks[p], "hash", "Io"))
           ELSE Step(p, WriteHashArtifact(Cur, tasks[p].parent, tasks[p].ino,
                                          tasks[p].name, tasks[p].kind),
                     Joined(tasks[p], "hash", "Ok"))

\* the task that updates the parent's mtime and ctime
CreateParentTask ==
    \E p \in Procs :
        /\ At(p, "create_nod", "tasks")
        /\ "parent" \in tasks[p].pending
        /\ UpdateMutexFree(tasks[p].parent)
        /\ \E u \in {update_inode(Cur, tasks[p].parent,
                                  [mtime |-> now, ctime |-> now])} :
              Step(p, u.st, Joined(tasks[p], "parent", u.res))

\* delete_file(parent, name) is called: its checks and find_by_name
DeleteCall(parents, names) ==
    \E p \in Procs, parent \in parents, name \in names :
        /\ tasks[p] = Idle
        /\ \E call \in {[op |-> "delete_file", pc |-> "inode",
                         parent |-> parent, name |-> name, attr |-> Nil,
                         enc |-> Nil, res |-> "Pending"]} :
              IF ~is_dir(Cur, parent)
              THEN Step(p, Cur, Done(call, "InvalidInodeType"))
              ELSE IF ~exists_by_name(Cur, parent, name).val
              THEN Step(p, Cur, Done(call, "NotFound"))
              ELSE \E f \in {find_by_name(Cur, parent, name)} :
                      Step(p, f.st,
                           IF f.res # "Ok" THEN Done(call, f.res)
                           ELSE IF f.val = None THEN Done(call, "NotFound")
                           ELSE IF f.val[1].kind # RegularFile
                           THEN Done(call, "InvalidInodeType")
                           ELSE [call EXCEPT !.attr = f.val[1]])

\* fs::remove_file of the inode record; lock.write() is not awaited, so the
\* removal waits for nobody
DeleteInode ==
    \E p \in Procs :
        /\ At(p, "delete_file", "inode")
        /\ IF tasks[p].attr.ino \notin DOMAIN inodes
           THEN Step(p, Cur, Done(tasks[p], "Io"))
           ELSE Step(p, [Cur EXCEPT !.inodes = Del(@, tasks[p].attr.ino)],
                     [tasks[p] EXCEPT !.pc = "content"])

\* fs::remove_file of the content artifact
DeleteContent ==
    \E p \in Procs :
        /\ At(p, "delete_file", "content")
        /\ IF ~is_file(Cur, tasks[p].attr.ino)
           THEN Step(p, Cur, Done(tasks[p], "Io"))
           ELSE Step(p, [Cur EXCEPT !.contents = Del(@, tasks[p].attr.ino)],
                     [tasks[p] EXCEPT !.pc = "hash"])

\* remove_directory_entry: the hash artifact is read and removed under its
\* lock
DeleteHash ==
    \E p \in Procs :
        /\ At(p, "delete_file", "hash")
        /\ \E d \in {tasks[p].parent}, h \in {hash_file_name(tasks[p].name)} :
              IF ~is_dir(Cur, d) \/ h \notin DOMAIN contents[d].hash
              THEN Step(p, Cur, Done(tasks[p], "Io"))
              ELSE Step(p, [Cur EXCEPT !.contents[d].hash = Del(@, h)],
                        [tasks[p] EXCEPT !.pc = "ls",
                                         !.enc = contents[d].hash[h].name])

\* remove_directory_entry: the ls artifact the payload named is removed
DeleteLs ==
    \E p \in Procs :
        /\ At(p, "delete_file", "ls")
        /\ \E d \in {tasks[p].parent}, e \in {tasks[p].enc} :
              IF ~is_dir(Cur, d) \/ e \notin DOMAIN contents[d].ls
              THEN Step(p, Cur, Done(tasks[p], "Io"))
              ELSE Step(p, [Cur EXCEPT !.contents[d].ls = Del(@, e)],
                        [tasks[p] EXCEPT !.pc = "parent"])

\* attr_cache demote (the entry stays) and update_inode of the parent
DeleteParent ==
    \E p \in Procs :
        /\ At(p, "delete_file", "parent")
        /\ UpdateMutexFree(tasks[p].parent)
        /\ \E u \in {update_inode(Cur, tasks[p].parent,
                                  [mtime |-> now, ctime |-> now])} :
              Step(p, u.st, Done(tasks[p], u.res))

\* write returns from its checks, before it locks the handle context
WriteEarly(S, ino, offset, buf, handle) ==
    \/ ~node_exists(S, ino)
    \/ ~is_file(S, ino)
    \/ handle \notin DOMAIN S.write_handles
    \/ S.write_handles[handle].ino # ino
    \/ buf = <<>>
    \/ offset > MaxPlain

\* write(ino, 0, buf, handle) is called and makes its checks; acc is the
\* number of bytes the cipher writer will accept
WriteCall(inos, bufs, fhs) ==
    \E p \in Procs, ino \in inos, buf \in bufs, handle \in fhs :
    \E acc \in 1..Max(1, Len(buf)) :
    \E task \in {[op |-> "write", pc |-> "lock", ino |-> ino, buf |-> buf,
                   handle |-> handle, acc |-> acc, seen |-> None,
                   res |-> "Pending"]} :
        /\ tasks[p] = Idle
        /\ IF WriteEarly(Cur, ino, 0, buf, handle)
           THEN Step(p, Cur,
                     Done(task, write(Cur, ino, 0, buf, handle, now, acc,
                                      FALSE).res))
           ELSE Step(p, Cur, task)

\* guard.get(&handle).unwrap().lock().await
WriteLockCtx ==
    \E p \in Procs :
        /\ At(p, "write", "lock")
        /\ CtxMutexFree(tasks[p].handle)
        /\ Step(p, Cur,
                IF tasks[p].handle \in DOMAIN write_handles
                THEN [tasks[p] EXCEPT !.pc = "io"]
                ELSE Done(tasks[p], "Panic"))

\* the callback up to the lock of the update mutex: reset_handles (free
\* function) reads the inode record, then waits for the mutex
CallbackRead(task) ==
    Bind(get_inode_from_storage(Cur, task.ino), LAMBDA g :
        IF g.res # "Ok" THEN Done(task, "Io")
        ELSE [task EXCEPT !.pc = "cb_lock", !.seen = Some(g.val)])

\* the size update of reset_handles (free function) on the record attr it
\* read before it took the mutex: S is the state the callback leaves when
\* it reads the record under the mutex, S0 the state it started from
RecordedFrom(S, S0, ino, attr) ==
    IF Len(FileData(S, ino)) > attr.size
    THEN write_inode_to_storage(
             S, [attr EXCEPT !.size = Len(FileData(S, ino))])
    ELSE [S EXCEPT !.inodes = S0.inodes, !.attr_cache = S0.attr_cache]

\* writer.write(buf) with the context locked: the writer keeps the data and
\* the call returns, or the writer commits its data and invokes
\* on_file_content_changed, which runs reset_handles up to the lock of the
\* update mutex
WriteIo ==
    \E p \in Procs :
        /\ At(p, "write", "io")
        /\ \/ \E o \in {write(Cur, tasks[p].ino, 0, tasks[p].buf,
                                tasks[p].handle, now, tasks[p].acc, FALSE)} :
                 Step(p, o.st, Done(tasks[p], o.res))
           \/ Step(p, Cur, CallbackRead(tasks[p]))

\* flush(handle) is called; a handle without write context needs no lock
FlushCall(fhs) ==
    \E p \in Procs, handle \in fhs :
    \E task \in {[op |-> "flush", pc |-> "lock", handle |-> handle,
                   ino |-> IF handle \in DOMAIN write_handles
                           THEN write_handles[handle].ino ELSE 0,
                   seen |-> None, res |-> "Pending"]} :
        /\ tasks[p] = Idle
        /\ IF handle \in DOMAIN write_handles
           THEN Step(p, Cur, task)
           ELSE Step(p, Cur, Done(task, flush(Cur, handle).res))

\* ctx.lock().await and writer.flush(): a writer without dirty data returns,
\* a writer with dirty data commits it and invokes on_file_content_changed
FlushLockCtx ==
    \E p \in Procs :
        /\ At(p, "flush", "lock")
        /\ CtxMutexFree(tasks[p].handle)
        /\ Step(p, Cur,
                IF tasks[p].handle \notin DOMAIN write_handles
                THEN Done(tasks[p], "Ok")
                ELSE IF write_handles[tasks[p].handle].writer.dirty
                THEN CallbackRead(tasks[p])
                ELSE Done(tasks[p], "Ok"))

\* reset_handles (free function), called from the writer's callback with
\* the handle context locked: lock.lock().await on the update mutex
CallbackLock ==
    \E p \in Procs :
        /\ tasks[p].op \in {"write", "flush"}
        /\ tasks[p].pc = "cb_lock"
        /\ UpdateMutexFree(tasks[p].ino)
        /\ Step(p, Cur, [tasks[p] EXCEPT !.pc = "cb_held"])

\* the rest of the callback and of the call: the size is recorded, the
\* update mutex released, the other handles reset, the context unlocked
CallbackRun ==
    \E p \in Procs :
        /\ tasks[p].op \in {"write", "flush"}
        /\ tasks[p].pc = "cb_held"
        /\ \E o \in {IF tasks[p].op = "write"
                      THEN write(Cur, tasks[p].ino, 0, tasks[p].buf,
                                 tasks[p].handle, now, tasks[p].acc, TRUE)
                      ELSE flush(Cur, tasks[p].handle)} :
              Step(p,
                   IF o.res = "Ok"
                   THEN RecordedFrom(o.st, Cur, tasks[p].ino, tasks[p].seen[1])
                   ELSE o.st,
                   Done(tasks[p], o.res))

(***************************************************************************)
(* Specifications.                                                         *)
(***************************************************************************)
BufsUpTo(n) == UNION {[1..k -> Bytes] : k \in 0..n}

Flags == {<<FALSE, FALSE>>, <<TRUE, FALSE>>, <<FALSE, TRUE>>, <<TRUE, TRUE>>}

FileInos == (ROOT_INODE + 1)..MaxIno

\* File I/O on one regular file of the root directory.
NextIO ==
    \/ CreateNod({ROOT_INODE}, {"a"}, {RegularFile}, Flags)
    \/ Open(FileInos, Flags)
    \/ Release(Fhs)
    \/ Read(FileInos, 0..1, 1..MaxPlain, Fhs)
    \/ Write(FileInos, 0..1, BufsUpTo(MaxPlain), Fhs)
    \/ Flush(Fhs)
    \/ Truncate(FileInos, 0..MaxPlain)
    \/ DeleteFile({ROOT_INODE}, {"a"})

SpecIO == Init /\ [][NextIO]_vars

TreeNames == {"a", "$.", "$.."}

\* The directory tree.
NextTree ==
    \/ CreateNod(Inos, TreeNames, FileTypes, {<<FALSE, FALSE>>})
    \/ DeleteFile(Inos, TreeNames)
    \/ DeleteDir(Inos, TreeNames)
    \/ Rename(Inos, TreeNames)
    \/ UpdateInode(Inos, {[perm |-> 1]})
    \/ ExpireCache

SpecTree == Init /\ [][NextTree]_vars

UpdateAttrs == {[perm |-> 1], [uid |-> 1], [perm |-> 2]}

\* update_inode calls that run concurrently on the files of the root.
NextUpdate ==
    \/ CreateNod({ROOT_INODE}, {"a"}, {RegularFile}, {<<FALSE, FALSE>>})
    \/ UpdateCall(FileInos, UpdateAttrs)
    \/ UpdateLock
    \/ UpdateGet
    \/ UpdateWrite
    \/ UpdateCache
    \/ ExpireCache

SpecUpdate == Init /\ [][NextUpdate]_vars

\* release step by step, beside reads, writes and get_inode calls on a file
\* of the root that create_nod opened.
NextRelease ==
    \/ CreateNod({ROOT_INODE}, {"a"}, {RegularFile}, {<<TRUE, TRUE>>})
    \/ Read(FileInos, {0}, {1}, {1})
    \/ Write(FileInos, {0}, {<<1>>}, {1})
    \/ Tick
    \/ ObserveInode(FileInos)
    \/ ReleaseCall({1})
    \/ ReleaseTakeReader
    \/ ReleaseUnlistReader
    \/ ReleaseReaderAttr
    \/ ReleaseTakeWriter
    \/ ReleaseFlushWriter
    \/ ReleaseUnlistWriter
    \/ ReleaseWriterAttr

SpecRelease == Init /\ [][NextRelease]_vars

\* create_nod and delete_file calls that run concurrently on one name of
\* the root.
NextDir ==
    \/ CreateCall({ROOT_INODE}, {"a"}, FileTypes)
    \/ CreateInode
    \/ CreateContentTask
    \/ CreateDotsTask
    \/ CreateLsTask
    \/ CreateHashTask
    \/ CreateParentTask
    \/ DeleteCall({ROOT_INODE}, {"a"})
    \/ DeleteInode
    \/ DeleteContent
    \/ DeleteHash
    \/ DeleteLs
    \/ DeleteParent

SpecDir == Init /\ [][NextDir]_vars

\* write and flush with their handle locks, concurrent with update_inode
\* and get_inode on the same inode
NextLock ==
    \/ CreateNod({ROOT_INODE}, {"a"}, {RegularFile}, {<<TRUE, TRUE>>})
    \/ WriteCall(FileInos, {<<1>>}, {1})
    \/ WriteLockCtx
    \/ WriteIo
    \/ FlushCall({1})
    \/ FlushLockCtx
    \/ CallbackLock
    \/ CallbackRun
    \/ UpdateCall(FileInos, {[perm |-> 1]})
    \/ UpdateLock
    \/ UpdateGet
    \/ UpdateWrite
    \/ UpdateCache
    \/ ObserveInode(FileInos)

SpecLock == Init /\ [][NextLock]_vars

\* calls made one after the other: a call starts when no call is in
\* progress
SerialCreateNod(parents, names, kinds, flags) ==
    Quiescent /\ CreateNod(parents, names, kinds, flags)

SerialOpen(inos, flags) == Quiescent /\ Open(inos, flags)

SerialWrite(inos, offsets, bufs, fhs) ==
    Quiescent /\ Write(inos, offsets, bufs, fhs)

SerialReleaseCall(fhs) == Quiescent /\ ReleaseCall(fhs)

\* files opened more than once, written and released, one call at a time
NextTrunc ==
    \/ SerialCreateNod({ROOT_INODE}, {"a"}, {RegularFile}, {<<TRUE, TRUE>>})
    \/ SerialOpen(FileInos, {<<TRUE, TRUE>>})
    \/ SerialWrite(FileInos, {0}, {<<1>>}, Fhs)
    \/ SerialReleaseCall(Fhs)
    \/ ReleaseTakeReader
    \/ ReleaseUnlistReader
    \/ ReleaseReaderAttr
    \/ ReleaseTakeWriter
    \/ ReleaseFlushWriter
    \/ ReleaseUnlistWriter
    \/ ReleaseWriterAttr

SpecTrunc == Init /\ [][NextTrunc]_vars

\* password changes and mounts of a data directory that holds entries
NextPassword ==
    \/ CreateNod({ROOT_INODE}, {"a"}, FileTypes, {<<FALSE, FALSE>>})
    \/ ChangePassword(Passwords, Passwords)
    \/ Mount(Passwords)

SpecPassword == Init /\ [][NextPassword]_vars

\* copies between two regular files of the root directory
NextCopy ==
    \/ CreateNod({ROOT_INODE}, {"a", "b"}, {RegularFile}, {<<TRUE, TRUE>>})
    \/ Write(FileInos, {0}, BufsUpTo(MaxPlain), Fhs)
    \/ Flush(Fhs)
    \/ CopyFileRange(FileInos, 0..1, 1..MaxPlain, Fhs)

SpecCopy == Init /\ [][NextCopy]_vars

\* opens that succeed and opens whose writer cannot be created
NextOpen ==
    \/ CreateNod({ROOT_INODE}, {"a"}, {RegularFile}, Flags)
    \/ Open(FileInos, Flags)
    \/ OpenWriterError(FileInos, BOOLEAN)
    \/ Write(FileInos, {0}, {<<1>>}, Fhs)
    \/ Release(Fhs)

SpecOpen == Init /\ [][NextOpen]_vars

(***************************************************************************)
(* Properties.                                                             *)
(***************************************************************************)
\* the handles of write_handles whose context is bound to ino
WriteContextsOf(ino) == {h \in DOMAIN write_handles : write_handles[h].ino = ino}

\* C1: single writer. In every reachable state each inode has at most one
\* live write-handle context in write_handles, and the handle of that
\* context is the one opened_files_for_write records for the inode.
C1_SingleWriter ==
    \A ino \in Inos :
        /\ Cardinality(WriteContextsOf(ino)) <= 1
        /\ \A h \in WriteContextsOf(ino) :
              /\ ino \in DOMAIN opened_files_for_write
              /\ opened_files_for_write[ino] = h

\* inode f has a live write handle: the mapping names a context in the table
LiveWriter(f) ==
    /\ f \in DOMAIN opened_files_for_write
    /\ opened_files_for_write[f] \in DOMAIN write_handles

\* C2: double-open for write. When inode f has a live write handle fh1,
\* open(f, read, TRUE) returns AlreadyOpenForWrite for either value of read,
\* creates no new live handle, and leaves fh1 in write_handles and as the
\* value of opened_files_for_write[f].
C2_DoubleOpenRejected ==
    \A f \in FileInos, rd \in BOOLEAN :
        LiveWriter(f) =>
            LET fh1 == opened_files_for_write[f]
                o   == open(Cur, f, rd, TRUE)
            IN  /\ o.res = "AlreadyOpenForWrite"
                /\ DOMAIN o.st.write_handles = DOMAIN write_handles
                /\ DOMAIN o.st.read_handles = DOMAIN read_handles
                /\ fh1 \in DOMAIN o.st.write_handles
                /\ f \in DOMAIN o.st.opened_files_for_write
                /\ o.st.opened_files_for_write[f] = fh1

\* read(ino, 0, buffer of |B| bytes, fh) on state S returns the bytes B
ReadsBack(S, ino, fh, B) ==
    \E r \in {read(S, ino, 0, Len(B), fh, now)} : r.res = "Ok" /\ r.val = B

\* release(fh), a fresh open(ino, TRUE, FALSE) and a read of |B| bytes at
\* offset 0 on state S yield B
ReopenReadsBack(S, ino, fh, B) ==
    \E rel \in {release(S, fh)} :
        /\ rel.res = "Ok"
        /\ \E o \in {open(rel.st, ino, TRUE, FALSE)} :
              o.res = "Ok" /\ ReadsBack(o.st, ino, o.val, B)

\* the inputs of the round trip: the bytes B and the writer's choices (how
\* many bytes one call accepts, whether its buffer spills to the file)
RoundTripInputs ==
    {x \in [B : BufsUpTo(MaxPlain), acc : 1..MaxPlain, spill : BOOLEAN] :
        x.acc <= Max(1, Len(x.B))}

C4_SizeFidelity ==
    \A fh \in DOMAIN write_handles :
    \A r \in {release(Cur, fh)} :
        r.res = "Ok" =>
            \E g \in {get_inode(r.st, write_handles[fh].ino)} :
                g.res = "Ok" /\ g.val.size = write_handles[fh].attr.size

\* a release has completed and left a file of non-zero size without writer
C4_Witness ==
    /\ ret = [op |-> "release", res |-> "Ok"]
    /\ \E ino \in FileInos :
          /\ ino \in DOMAIN inodes
          /\ inodes[ino].size > 0
          /\ ino \notin DOMAIN opened_files_for_write
          /\ WriteContextsOf(ino) = {}

TimeFields == {"atime", "mtime", "ctime", "crtime"}

\* C5: timestamp monotonicity. Each of atime, mtime, ctime and crtime that
\* successive get_inode calls on an inode return is nondecreasing, whatever
\* read, write and release do between them or while they run: no get_inode
\* issued while a release is in progress returns a timestamp older than one
\* an earlier get_inode returned.
C5_TimestampMonotonic ==
    [][\A p \in Procs :
          (tasks[p].op = "get_inode" /\ tasks'[p].op = "get_inode") =>
              \A fld \in TimeFields :
                  tasks'[p].attr[fld] >= tasks[p].attr[fld]]_vars

\* the logical names create_nod accepts
AcceptedNames == Names \ {".", ".."}

\* the directories: the inodes whose content artifact is a directory
Dirs == {d \in DOMAIN contents : is_dir(Cur, d)}

\* C6: name bijection. After any sequence of completed create_nod,
\* delete_file, delete_dir and rename calls, for every directory d and every
\* logical name n that create_nod accepts, exists_by_name(d, n) is true if
\* and only if find_by_name(d, n) returns Some, if and only if the
\* enumeration read_dir(d) yields an entry named n.
C6_NameBijection ==
    \A d \in Dirs : \A n \in AcceptedNames :
    \E e \in {exists_by_name(Cur, d, n)} : \E f \in {find_by_name(Cur, d, n)} :
        /\ (e.res = "Ok" /\ e.val) <=> (f.res = "Ok" /\ f.val # None)
        /\ (e.res = "Ok" /\ e.val) <=> (n \in read_dir_names(Cur, d))

\* a rename has completed, and some directory holds a name that all three
\* lookups report and lacks another accepted name
C6_Witness ==
    /\ ret = [op |-> "rename", res |-> "Ok"]
    /\ \E d \in Dirs : \E n, m \in AcceptedNames :
          /\ exists_by_name(Cur, d, n).val
          /\ find_by_name(Cur, d, n).val # None
          /\ n \in read_dir_names(Cur, d)
          /\ ~exists_by_name(Cur, d, m).val
          /\ m \notin read_dir_names(Cur, d)

\* the hash artifacts of directory d name ls artifacts of d that agree on
\* (ino, kind), and each ls artifact of a non-synthetic entry has exactly
\* one hash artifact naming it
Coherent(d) ==
    /\ \A h \in DOMAIN contents[d].hash :
          /\ contents[d].hash[h].name \in DOMAIN contents[d].ls
          /\ contents[d].ls[contents[d].hash[h].name]
                = LsPayload(contents[d].hash[h].ino, contents[d].hash[h].kind)
    /\ \A e \in DOMAIN contents[d].ls :
          e \notin {"$.", "$.."} =>
              Cardinality({h \in DOMAIN contents[d].hash :
                              contents[d].hash[h].name = e}) = 1

\* C7: hash/ls coherence. In every state where no directory operation is in
\* progress, also after concurrent insertions and removals on the same
\* directory and the same name, every hash artifact under a directory names
\* an existing ls artifact with the same (ino, kind), and every ls artifact
\* of a non-synthetic entry has exactly one such hash artifact.
C7_HashLsCoherence == Quiescent => \A d \in Dirs : Coherent(d)

\* C8: inode/content pairing. After any sequence of completed calls an
\* inode record inodes/<ino> exists if and only if the content artifact
\* contents/<ino> exists, and the kinds match: a regular file artifact for
\* RegularFile, a directory with ls/ and hash/ for Directory.
C8_InodeContentPairing ==
    \A i \in Inos :
        /\ (i \in DOMAIN inodes) <=> (i \in DOMAIN contents)
        /\ (i \in DOMAIN inodes /\ i \in DOMAIN contents) =>
              /\ (inodes[i].kind = RegularFile) <=> is_file(Cur, i)
              /\ (inodes[i].kind = Directory) <=> is_dir(Cur, i)

\* C9: root permanence. In every reachable state inode 1 exists, has kind
\* Directory, and its content directory holds the self entry, which names
\* inode 1: no create_nod, delete_file, delete_dir or rename call removes or
\* replaces the root inode or its self entry.
C9_RootPermanence ==
    /\ ROOT_INODE \in DOMAIN inodes
    /\ inodes[ROOT_INODE].kind = Directory
    /\ is_dir(Cur, ROOT_INODE)
    /\ "$." \in DOMAIN contents[ROOT_INODE].ls
    /\ contents[ROOT_INODE].ls["$."] = LsPayload(ROOT_INODE, Directory)

\* the update_inode calls on inode f
Updaters(f) ==
    {p \in Procs : tasks[p].op = "update_inode" /\ tasks[p].ino = f}

\* the records that result from applying the updates of the callers in P to
\* base one after another, in every order
RECURSIVE SeqResults(_, _)
SeqResults(base, P) ==
    IF P = {} THEN {base}
    ELSE UNION {SeqResults(merge_attr(base, tasks[p].set_attr), P \ {p}) :
                   p \in P}

\* C10: update_inode linearization. When the update_inode calls that ran
\* concurrently on an inode have all returned, the stored record equals the
\* result of applying the successful ones one after another in some order:
\* two updates that set different fields both take effect.
C10_UpdateLinearized ==
    \A f \in FileInos :
        (f \in DOMAIN inodes /\ \A p \in Updaters(f) : tasks[p].pc = "done") =>
            inodes[f] \in SeqResults(NewAttr(f, RegularFile, 0),
                                     {p \in Updaters(f) : tasks[p].res = "Ok"})

\* two calls on the same inode, one setting perm and one setting uid, have
\* overlapped and returned, and the stored record shows both
C10_Witness ==
    \E f \in FileInos : \E p, q \in Updaters(f) :
        /\ tasks[p].pc = "done" /\ tasks[p].res = "Ok"
        /\ tasks[q].pc = "done" /\ tasks[q].res = "Ok"
        /\ tasks[p].set_attr = [perm |-> 1]
        /\ tasks[q].set_attr = [uid |-> 1]
        /\ inodes[f].perm = 1
        /\ inodes[f].uid = 1

\* caller p waits for a lock that caller q holds: the update mutex of an
\* inode, or the mutex of a write handle context
WaitsFor(p, q) ==
    \/ /\ \/ At(p, "update_inode", "lock")
          \/ tasks[p].op \in {"write", "flush"} /\ tasks[p].pc = "cb_lock"
       /\ \/ /\ tasks[q].op = "update_inode"
             /\ tasks[q].pc \in {"get", "write", "cache"}
          \/ /\ tasks[q].op \in {"write", "flush"}
             /\ tasks[q].pc = "cb_held"
       /\ tasks[q].ino = tasks[p].ino
    \/ /\ tasks[q].op \in {"write", "flush"}
       /\ tasks[q].pc \in {"io", "cb_lock", "cb_held"}
       /\ \/ /\ tasks[p].op \in {"write", "flush"}
             /\ tasks[p].pc = "lock"
             /\ tasks[p].handle = tasks[q].handle
          \/ /\ At(p, "update_inode", "get")
             /\ tasks[p].ino \in DOMAIN opened_files_for_write
             /\ opened_files_for_write[tasks[p].ino] = tasks[q].handle
             /\ tasks[q].handle \in DOMAIN write_handles

\* C11: deadlock freedom. With write and flush invoking the
\* on_file_content_changed callback while the handle context is locked, and
\* update_inode and get_inode running concurrently on the same inode, no
\* reachable state has a set of calls each of which waits for a lock that
\* another call of the set holds.
C11_NoLockCycle ==
    \A P \in SUBSET Procs :
        P # {} => \E p \in P : \A q \in P : ~WaitsFor(p, q)

\* no read or write handle is open on ino
NoHandles(S, ino) ==
    /\ ino \notin DOMAIN S.opened_files_for_read
    /\ ino \notin DOMAIN S.opened_files_for_write
    /\ \A h \in DOMAIN S.read_handles : S.read_handles[h].ino # ino
    /\ \A h \in DOMAIN S.write_handles : S.write_handles[h].ino # ino

\* the first min(size, n) bytes of content C of length n, followed by
\* size - n zero bytes when size > n
Resized(C, size) ==
    Take(C, Min(size, Len(C)))
        \o Zeros(IF size > Len(C) THEN size - Len(C) ELSE 0)

\* C12: truncate result. For a regular file with content C of length n and
\* no open handles, when no call is in progress, truncate(ino, S) with S # n succeeds and leaves the
\* content equal to the first min(S, n) bytes of C followed by S - n zero
\* bytes when S > n (the empty content for S = 0), and get_inode(ino)
\* returns size S.
C12_TruncateResult ==
    \A ino \in FileInos : \A size \in 0..MaxPlain :
        (/\ Quiescent
         /\ node_exists(Cur, ino)
         /\ is_file(Cur, ino)
         /\ NoHandles(Cur, ino)
         /\ size # Len(FileData(Cur, ino))) =>
            \E t \in {truncate(Cur, ino, size, now)} :
                /\ t.res = "Ok"
                /\ FileData(t.st, ino) = Resized(FileData(Cur, ino), size)
                /\ \E g \in {get_inode(t.st, ino)} :
                      g.res = "Ok" /\ g.val.size = size

\* C13: truncate idempotence. For every regular file and every size S, a
\* truncate(ino, S) that follows a truncate(ino, S), at the same or a later
\* time, returns the same result and changes nothing: content, inode
\* records, cache and handle state are those the first call left.
C13_TruncateIdempotent ==
    \A ino \in FileInos : \A size \in 0..MaxPlain :
        (node_exists(Cur, ino) /\ is_file(Cur, ino)) =>
            \E t1 \in {truncate(Cur, ino, size, now)} :
            \E t2 \in {truncate(t1.st, ino, size, now + 1)} :
                /\ t2.st = t1.st
                /\ t1.res = "Ok" => t2.res = "Ok"

\* a truncate has changed the length of a file that has a handle open, and
\* a second truncate to the same size returns Ok
C13_Witness ==
    /\ ret = [op |-> "truncate", res |-> "Ok"]
    /\ \E ino \in FileInos :
          /\ node_exists(Cur, ino)
          /\ is_file(Cur, ino)
          /\ ~NoHandles(Cur, ino)
          /\ Len(FileData(Cur, ino)) = 2
          /\ inodes[ino].size = 2
          /\ inodes[ino].mtime = now
          /\ truncate(Cur, ino, 2, now + 1).res = "Ok"

\* the entry (parent, name) exists, (new_parent, new_name) is another entry
\* of a directory and is absent
RenameCase(parent, name, new_parent, new_name) ==
    /\ exists_by_name(Cur, parent, name).val
    /\ <<parent, name>> # <<new_parent, new_name>>
    /\ exists_by_name(Cur, new_parent, new_name).res = "Ok"
    /\ ~exists_by_name(Cur, new_parent, new_name).val

\* rename moved the entry that named attr: the old name finds nothing, the
\* new name finds the same inode with the same kind and size, and the
\* content of a regular file is unchanged
Moved(S, parent, name, new_parent, new_name, attr) ==
    /\ \E f \in {find_by_name(S, parent, name)} :
          f.res = "Ok" /\ f.val = None
    /\ \E f \in {find_by_name(S, new_parent, new_name)} :
          /\ f.res = "Ok"
          /\ f.val # None
          /\ f.val[1].ino = attr.ino
          /\ f.val[1].kind = attr.kind
          /\ f.val[1].size = attr.size
    /\ attr.kind = RegularFile =>
          /\ (attr.ino \in DOMAIN S.contents) = (attr.ino \in DOMAIN contents)
          /\ attr.ino \in DOMAIN contents =>
                S.contents[attr.ino] = contents[attr.ino]

\* C14: rename moves the entry. For rename(parent, name, new_parent,
\* new_name) where the source exists, (parent, name) differs from
\* (new_parent, new_name) and the destination name is absent, the call
\* succeeds and afterwards find_by_name(parent, name) is None,
\* find_by_name(new_parent, new_name) returns the attributes of the same
\* inode with the same kind and size, and the file's content is unchanged.
C14_RenameMoves ==
    \A parent \in Inos, new_parent \in Inos :
    \A name \in Names, new_name \in Names :
        RenameCase(parent, name, new_parent, new_name) =>
            \E src \in {find_by_name(Cur, parent, name)} :
            \E r \in {rename(Cur, parent, name, new_parent, new_name)} :
                /\ src.res = "Ok"
                /\ src.val # None
                /\ r.res = "Ok"
                /\ Moved(r.st, parent, name, new_parent, new_name, src.val[1])

\* (parent, name) names a directory that holds an entry other than its
\* synthetic entries
NonEmptyDir(parent, name) ==
    \E f \in {find_by_name(Cur, parent, name)} :
        /\ f.res = "Ok"
        /\ f.val # None
        /\ f.val[1].kind = Directory
        /\ is_dir(Cur, f.val[1].ino)
        /\ DOMAIN contents[f.val[1].ino].ls \ {"$.", "$.."} # {}

\* C15: non-empty directory rejection. delete_dir(parent, name) on a
\* directory that has at least one non-synthetic child returns NotEmpty and
\* leaves the inode records, the content artifacts and the ls/ and hash/
\* index of every directory unchanged.
C15_NotEmptyRejected ==
    \A parent \in Inos : \A name \in Names :
        NonEmptyDir(parent, name) =>
            \E d \in {delete_dir(Cur, parent, name, now)} :
                /\ d.res = "NotEmpty"
                /\ d.st.inodes = inodes
                /\ d.st.contents = contents

\* delete_dir has just returned NotEmpty for a directory that is still
\* there with its child
C15_Witness ==
    /\ ret = [op |-> "delete_dir", res |-> "NotEmpty"]
    /\ \E parent \in Inos : \E name \in AcceptedNames :
          NonEmptyDir(parent, name)

\* the data directory of the current state with security directory sec
WithSecurity(sec) == [Cur EXCEPT !.security = sec]

\* mounting S with the password succeeds, gives master key and leaves the
\* inode records and content artifacts of the current state
MountsWith(S, password, key) ==
    \E m \in {new(S, password, "salt1", "key1", now)} :
        /\ m.res = "Ok"
        /\ m.val = key
        /\ m.st.inodes = inodes
        /\ m.st.contents = contents

\* C16 as stated: after change_password(data_dir, old, new) succeeds,
\* mounting with new succeeds and yields the master key that old yielded
\* before the change, mounting with old fails with InvalidPassword, and
\* the salt is unchanged.
C16_PasswordChangeAsStated ==
    \A old \in Passwords, new_pw \in Passwords :
    \E c \in {change_password(security, old, new_pw)} :
        c.res = "Ok" =>
            /\ \E before \in {new(Cur, old, "salt1", "key1", now)} :
                  /\ before.res = "Ok"
                  /\ MountsWith(WithSecurity(c.sec), new_pw, before.val)
            /\ new(WithSecurity(c.sec), old, "salt1", "key1", now).res
                  = "InvalidPassword"
            /\ c.sec.salt = security.salt

\* C16 amended: after change_password(data_dir, old, new) succeeds,
\* mounting with new succeeds and yields the master key that old yielded
\* before the change, the salt is unchanged, and when new differs from old
\* mounting with old fails with InvalidPassword.
C16_PasswordChange ==
    \A old \in Passwords, new_pw \in Passwords :
    \E c \in {change_password(security, old, new_pw)} :
        c.res = "Ok" =>
            /\ \E before \in {new(Cur, old, "salt1", "key1", now)} :
                  /\ before.res = "Ok"
                  /\ MountsWith(WithSecurity(c.sec), new_pw, before.val)
            /\ old # new_pw =>
                  new(WithSecurity(c.sec), old, "salt1", "key1", now).res
                      = "InvalidPassword"
            /\ c.sec.salt = security.salt

\* a change from the first password to another has succeeded on a data
\* directory that holds an entry: the new password mounts with the first
\* master key and the first password does not mount
C16_Witness ==
    /\ ret = [op |-> "change_password", res |-> "Ok"]
    /\ DOMAIN inodes # {ROOT_INODE}
    /\ security.salt = "salt0"
    /\ security.key_enc = Some([wrap |-> derive_key("q", "salt0"),
                                key  |-> "key0"])
    /\ MountsWith(Cur, "q", "key0")
    /\ new(Cur, "p", "salt1", "key1", now).res = "InvalidPassword"

\* handle is in neither handle table and in neither opened-files index
Forgotten(S, handle) ==
    /\ handle \notin DOMAIN S.read_handles
    /\ handle \notin DOMAIN S.write_handles
    /\ \A i \in DOMAIN S.opened_files_for_read :
          handle \notin S.opened_files_for_read[i]
    /\ \A i \in DOMAIN S.opened_files_for_write :
          S.opened_files_for_write[i] # handle

\* C17: release(0) returns Ok and changes no state; release of a nonzero
\* handle that is in neither handle table returns InvalidFileHandle and
\* changes no state; after release(fh) has succeeded fh is in neither
\* table and in neither opened-files index, and a second release(fh)
\* returns InvalidFileHandle.
C17_ReleaseOutcomes ==
    Quiescent =>
    /\ release(Cur, 0) = Out(Cur, "Ok", Nil)
    /\ \A fh \in 1..(MaxHandle + 1) :
       \E r \in {release(Cur, fh)} :
          /\ (fh \notin DOMAIN read_handles /\ fh \notin DOMAIN write_handles)
                => r = Out(Cur, "InvalidFileHandle", Nil)
          /\ r.res = "Ok" =>
                /\ Forgotten(r.st, fh)
                /\ release(r.st, fh).res = "InvalidFileHandle"

\* a release has succeeded while another handle stays open: the released
\* handle is forgotten and releasing it again is refused
C17_Witness ==
    /\ ret = [op |-> "release", res |-> "Ok"]
    /\ DOMAIN read_handles # {}
    /\ \E fh \in Fhs :
          /\ fh < current_handle
          /\ Forgotten(Cur, fh)
          /\ release(Cur, fh) = Out(Cur, "InvalidFileHandle", Nil)

\* name is the name of an entry a caller made in directory parent: its ls
\* artifact is there and is not the directory's own synthetic entry
ChildListed(parent, name) ==
    /\ is_dir(Cur, parent)
    /\ encrypt_file_name(name) \in DOMAIN contents[parent].ls
    /\ name = "$." => contents[parent].ls["$."].ino # parent
    /\ name = "$.." => parent = ROOT_INODE

\* C18: create_nod fails with InvalidInput when the name is "." or "..",
\* with InodeNotFound when the parent inode does not exist, and with
\* AlreadyExists when the name already exists in the parent; in each case
\* no inode record, content artifact, directory entry or handle is created
\* and the parent's timestamps are unchanged.
C18_CreateNodPreconditions ==
    \A parent \in Inos, name \in Names, kind \in FileTypes, fl \in Flags,
       ino \in FreeInos :
    \E c \in {create_nod(Cur, parent, name, kind, fl[1], fl[2], now, ino)} :
        /\ name \in {".", ".."} => c = Out(Cur, "InvalidInput", 0)
        /\ (name \notin {".", ".."} /\ ~node_exists(Cur, parent))
              => c = Out(Cur, "InodeNotFound", 0)
        /\ (name \notin {".", ".."} /\ node_exists(Cur, parent)
              /\ ChildListed(parent, name))
              => c = Out(Cur, "AlreadyExists", 0)

\* the live read handles and the live write handles of inode ino
ReadersOf(ino) == {h \in DOMAIN read_handles : read_handles[h].ino = ino}

WritersOf(ino) == {h \in DOMAIN write_handles : write_handles[h].ino = ino}

Greatest(Vs) == CHOOSE v \in Vs : \A u \in Vs : u <= v

\* the stored record of ino fused with the live handles of ino
Fused(ino, attr) ==
    /\ \A f \in TimeFields :
          attr[f] = Greatest({inodes[ino][f]}
                             \cup {read_handles[h].attr[f] : h \in ReadersOf(ino)}
                             \cup {write_handles[h].attr[f] : h \in WritersOf(ino)})
    /\ WritersOf(ino) = {} => attr.size = inodes[ino].size
    /\ \A h \in WritersOf(ino) : attr.size = write_handles[h].attr.size
    /\ \A f \in {"ino", "kind", "perm", "uid"} : attr[f] = inodes[ino][f]

\* a write through fh that extends the size of its context is seen by
\* get_inode before any flush or release
ExtensionSeen(ino, fh) ==
    \A offset \in 0..MaxPlain, buf \in BufsUpTo(MaxPlain) :
    \E w \in {write(Cur, ino, offset, buf, fh, now, MaxPlain, FALSE)} :
        (/\ w.res = "Ok"
         /\ w.st.write_handles[fh].attr.size > write_handles[fh].attr.size)
        => get_inode(w.st, ino).val.size = w.st.write_handles[fh].attr.size

\* C19: get_inode(ino) returns the stored record with each timestamp
\* raised to the maximum over the stored value and the cached values of
\* every live read handle and of the live write handle of ino, and with
\* the size of the live write handle when there is one and of the stored
\* record otherwise; after a write through fh extends the context size to
\* S, get_inode(ino).size is S before any flush or release.
C19_GetInodeFuses ==
    Quiescent =>
    \A ino \in DOMAIN inodes :
        /\ \E g \in {get_inode(Cur, ino)} :
              g.res = "Ok" /\ Fused(ino, g.val)
        /\ \A fh \in WritersOf(ino) : ExtensionSeen(ino, fh)

\* a copy from src to dst that the handles allow: src_fh reads src, dst_fh
\* is the one writer of dst, no writer holds data it has not committed,
\* the source holds bytes from src_off onward and the destination has room
\* for what is read
CopyCase(src, src_off, dst, dst_off, n, src_fh, dst_fh) ==
    /\ node_exists(Cur, src) /\ is_file(Cur, src)
    /\ node_exists(Cur, dst) /\ is_file(Cur, dst)
    /\ src_fh \in DOMAIN read_handles /\ read_handles[src_fh].ino = src
    /\ WritersOf(dst) = {dst_fh}
    /\ \A h \in DOMAIN write_handles : ~write_handles[h].writer.dirty
    /\ src_off <= Len(FileData(Cur, src))
    /\ dst_off + Min(n, Len(FileData(Cur, src)) - src_off) <= MaxPlain

\* C20: for a source holding m bytes from src_off onward, copy_file_range
\* returns k = min(n, m) and afterwards the destination bytes at
\* [dst_off, dst_off + k) equal the source bytes at [src_off, src_off + k),
\* also when k < n and when a destination write accepts fewer bytes than
\* offered.
C20_CopiesWhatItRead ==
    Quiescent =>
    \A src \in FileInos, dst \in FileInos, src_off \in 0..1, dst_off \in 0..1,
       n \in 1..MaxPlain, src_fh \in Fhs, dst_fh \in Fhs,
       acc \in 1..MaxPlain, spill \in BOOLEAN :
    CopyCase(src, src_off, dst, dst_off, n, src_fh, dst_fh) =>
    \E k \in {Min(n, Len(FileData(Cur, src)) - src_off)} :
    \E c \in {copy_file_range(Cur, src, src_off, dst, dst_off, n, src_fh,
                              dst_fh, now, acc, spill)} :
        /\ c.res = "Ok"
        /\ c.val = k
        /\ \E f \in {flush(c.st, dst_fh)} :
              /\ f.res = "Ok"
              /\ SubSeq(FileData(f.st, dst), dst_off + 1, dst_off + k)
                   = SubSeq(FileData(Cur, src), src_off + 1, src_off + k)

\* fh is a live write handle of the regular file ino
WriteBound(ino, fh) ==
    /\ node_exists(Cur, ino) /\ is_file(Cur, ino)
    /\ fh \in DOMAIN write_handles /\ write_handles[fh].ino = ino

\* the outcome w of a write at offset through fh respects the limit
WriteWithinLimit(w, offset, fh) ==
    IF offset > MaxPlain
    THEN w = Out(Cur, "MaxFilesizeExceeded", 0)
    ELSE /\ w.res = "Ok"
         /\ offset + w.val <= MaxPlain
         /\ w.st.write_handles[fh].attr.size
              = Max(write_handles[fh].attr.size, offset + w.val)
         /\ w.st.write_handles[fh].attr.mtime = now
         /\ w.st.write_handles[fh].attr.ctime = now

\* C21 as stated: write(ino, offset, buf, fh) with offset above
\* cipher.max_plaintext_len fails with MaxFilesizeExceeded and leaves the
\* context unchanged; otherwise the count accepted keeps offset + len
\* within the limit, the context size becomes max(previous size,
\* offset + len) and mtime and ctime of the context are the current time;
\* no context size exceeds the limit. Every buffer is included.
C21_WriteLimitAsStated ==
    Quiescent =>
    /\ \A fh \in DOMAIN write_handles :
          write_handles[fh].attr.size <= MaxPlain
    /\ \A ino \in FileInos, fh \in Fhs, offset \in 0..(MaxPlain + 1),
          buf \in BufsUpTo(MaxPlain), acc \in 1..MaxPlain, spill \in BOOLEAN :
          WriteBound(ino, fh) =>
              \E w \in {write(Cur, ino, offset, buf, fh, now, acc, spill)} :
                  WriteWithinLimit(w, offset, fh)

\* C21 amended: the same for a write of a non-empty buffer (an empty
\* buffer returns 0 before the offset is looked at and leaves the context
\* as it is).
C21_WriteLimit ==
    Quiescent =>
    /\ \A fh \in DOMAIN write_handles :
          write_handles[fh].attr.size <= MaxPlain
    /\ \A ino \in FileInos, fh \in Fhs, offset \in 0..(MaxPlain + 1),
          buf \in BufsUpTo(MaxPlain), acc \in 1..MaxPlain, spill \in BOOLEAN :
          (WriteBound(ino, fh) /\ buf # <<>>) =>
              \E w \in {write(Cur, ino, offset, buf, fh, now, acc, spill)} :
                  WriteWithinLimit(w, offset, fh)
    /\ \A ino \in FileInos, fh \in Fhs, offset \in 0..(MaxPlain + 1) :
          WriteBound(ino, fh) =>
              write(Cur, ino, offset, <<>>, fh, now, 1, FALSE)
                  = Out(Cur, "Ok", 0)

\* a write has filled a context up to the limit: a write of one more byte
\* at the limit accepts nothing, and one past the limit is refused
C21_Witness ==
    /\ ret = [op |-> "write", res |-> "Ok"]
    /\ \E ino \in FileInos, fh \in Fhs :
          /\ WriteBound(ino, fh)
          /\ write_handles[fh].attr.size = MaxPlain
          /\ write(Cur, ino, MaxPlain, <<1>>, fh, now, 1, FALSE).val = 0
          /\ write(Cur, ino, MaxPlain + 1, <<1>>, fh, now, 1, FALSE).res
                = "MaxFilesizeExceeded"

\* fh is a live read handle of the regular file ino
ReadBound(ino, fh) ==
    /\ node_exists(Cur, ino) /\ is_file(Cur, ino)
    /\ fh \in DOMAIN read_handles /\ read_handles[fh].ino = ino

\* the read transferred nothing and changed nothing
ReadRefused(o) == o.st = Cur /\ o.val = <<>>

\* the write transferred nothing and changed nothing
WriteRefused(o) == o.st = Cur /\ o.val = 0

\* C22: read(ino, offset, buf, fh) transfers data only when fh is a live
\* read handle whose context belongs to ino, and write(ino, offset, buf,
\* fh) only when fh is a live write handle whose context belongs to ino;
\* on an existing regular file a released handle, a handle opened for the
\* other mode only, handle 0 and a handle of a different inode yield
\* InvalidFileHandle and change no handle context.
C22_HandleBinding ==
    Quiescent =>
    \A ino \in FileInos, fh \in 0..(MaxHandle + 1), offset \in 0..1 :
        /\ \A n \in 1..MaxPlain :
           \E r \in {read(Cur, ino, offset, n, fh, now)} :
              /\ ~ReadBound(ino, fh) => ReadRefused(r)
              /\ (node_exists(Cur, ino) /\ is_file(Cur, ino)
                    /\ ~ReadBound(ino, fh)) => r.res = "InvalidFileHandle"
        /\ \A buf \in BufsUpTo(MaxPlain) \ {<<>>}, spill \in BOOLEAN :
           \E w \in {write(Cur, ino, offset, buf, fh, now, MaxPlain, spill)} :
              /\ ~WriteBound(ino, fh) => WriteRefused(w)
              /\ (node_exists(Cur, ino) /\ is_file(Cur, ino)
                    /\ ~WriteBound(ino, fh)) => w.res = "InvalidFileHandle"

\* a regular file with a live handle opened for reading only beside a live
\* handle of another inode: the first reads and does not write, the second
\* does neither
C22_Witness ==
    \E ino \in FileInos, fh \in Fhs, other \in Fhs :
        /\ ReadBound(ino, fh) /\ fh \notin DOMAIN write_handles
        /\ read(Cur, ino, 0, 1, fh, now).res = "Ok"
        /\ write(Cur, ino, 0, <<1>>, fh, now, 1, FALSE)
             = Out(Cur, "InvalidFileHandle", 0)
        /\ other \in DOMAIN read_handles /\ other \in DOMAIN write_handles
        /\ read_handles[other].ino # ino
        /\ read(Cur, ino, 0, 1, other, now)
             = Out(Cur, "InvalidFileHandle", <<>>)
        /\ write(Cur, ino, 0, <<1>>, other, now, 1, FALSE)
             = Out(Cur, "InvalidFileHandle", 0)

\* the classes of the locks caller p holds where it stands, numbered as in
\* the documented order: 1 the update mutex of the inode, 5 the read lock
\* of the handle table, 6 the mutex of the handle context
LocksHeld(p) ==
    IF tasks[p].op = "update_inode"
    THEN IF tasks[p].pc \in {"get", "write", "cache"} THEN {1} ELSE {}
    ELSE IF tasks[p].op \in {"write", "flush"}
    THEN IF tasks[p].pc \in {"io", "cb_lock"} THEN {5, 6}
         ELSE IF tasks[p].pc = "cb_held" THEN {1, 5, 6}
         ELSE {}
    ELSE {}

\* the classes of the locks caller p asks for where it stands
LocksRequested(p) ==
    IF tasks[p].op = "update_inode"
    THEN IF tasks[p].pc = "lock" THEN {1}
         ELSE IF tasks[p].pc = "get" THEN {5, 6}
         ELSE {}
    ELSE IF tasks[p].op \in {"write", "flush"}
    THEN IF tasks[p].pc = "lock" THEN {5, 6}
         ELSE IF tasks[p].pc = "cb_lock" THEN {1}
         ELSE {}
    ELSE {}

\* C23: lock hierarchy. No call, the writer callback run inside write and
\* flush included, asks for a lock of an earlier class of the documented
\* order while it holds a lock of a later class.
C23_LockHierarchy ==
    \A p \in Procs :
        \A held \in LocksHeld(p), asked \in LocksRequested(p) \ LocksHeld(p) :
            asked >= held

\* the read handles after reset_handles(ino, pos, Some(fh)) left state S:
\* the other read handles of ino past pos are at 0, every other reader is
\* where it was
ReadersCoherent(S, ino, pos, fh) ==
    /\ DOMAIN S.read_handles = DOMAIN read_handles
    /\ \A h \in DOMAIN read_handles :
          S.read_handles[h].reader.pos =
              IF /\ h # fh
                 /\ read_handles[h].ino = ino
                 /\ read_handles[h].reader.pos > pos
              THEN 0
              ELSE read_handles[h].reader.pos

\* the write handles after reset_handles(ino, pos, Some(fh)) left state S:
\* every other writer of ino is flushed, at 0 and holds the stored size;
\* fh and the writers of other inodes are as they were
WritersCoherent(S, ino, fh) ==
    /\ DOMAIN S.write_handles = DOMAIN write_handles
    /\ \A w \in DOMAIN write_handles :
          IF w # fh /\ write_handles[w].ino = ino
          THEN /\ ~S.write_handles[w].writer.dirty
               /\ S.write_handles[w].writer.pos = 0
               /\ S.write_handles[w].attr.size = S.inodes[ino].size
          ELSE S.write_handles[w] = write_handles[w]

\* C24: when the writer with handle fh reports a change of inode ino from
\* changed_from_pos, after reset_handles(ino, changed_from_pos, Some(fh))
\* every other live read handle of ino past changed_from_pos is at 0, the
\* read handles of ino at or before it keep their position, handles of
\* other inodes and fh itself are not rewound, and any other live write
\* handle of ino is flushed, at 0 and holds the stored size.
C24_HandleCoherence ==
    Quiescent =>
    \A ino \in FileInos, fh \in Fhs, pos \in 0..MaxPlain :
        WriteBound(ino, fh) =>
        \E r \in {reset_handles(Cur, ino, pos, fh)} :
            r.res = "Ok" =>
                /\ ReadersCoherent(r.st, ino, pos, fh)
                /\ WritersCoherent(r.st, ino, fh)

\* caller p made a write or a flush whose writer reported a change, and
\* the call has returned Ok
Reported(p) ==
    /\ tasks[p].op \in {"write", "flush"}
    /\ tasks[p].pc = "done" /\ tasks[p].res = "Ok"
    /\ tasks[p].seen # None

\* C25: size reconciliation is an atomic read-modify-write. When the
\* callback of a writer has run concurrently with an update_inode on the
\* same inode and both calls have returned Ok, the field the update_inode
\* set holds the value it set, and the stored size is at least the
\* position the writer reported.
C25_SizeReconcileAtomic ==
    \A p \in Procs, q \in Procs :
        (/\ Reported(p)
         /\ tasks[q].op = "update_inode"
         /\ tasks[q].pc = "done" /\ tasks[q].res = "Ok"
         /\ tasks[q].ino = tasks[p].ino)
        => /\ inodes[tasks[p].ino].perm = tasks[q].set_attr.perm
           /\ inodes[tasks[p].ino].size >= Len(FileData(Cur, tasks[p].ino))

\* C26: open rollback. When open(ino, read=true, write=true) fails because
\* its write half fails, the freshly allocated handle is neither a key of
\* read_handles nor a member of opened_files_for_read[ino], and the handle
\* tables and indices equal their values before the call.
C26_OpenRollback ==
    \A ino \in FileInos :
    \E o \in {open_writer_error(Cur, ino, TRUE)} :
        o.res = "AlreadyOpenForWrite" =>
            /\ current_handle \notin DOMAIN o.st.read_handles
            /\ \A i \in DOMAIN o.st.opened_files_for_read :
                  current_handle \notin o.st.opened_files_for_read[i]
            /\ o.st.read_handles = read_handles
            /\ o.st.write_handles = write_handles
            /\ o.st.opened_files_for_read = opened_files_for_read
            /\ o.st.opened_files_for_write = opened_files_for_write

\* C27: handle index consistency. In every reachable state, the states
\* between the steps of a release included, every handle listed in
\* opened_files_for_read[ino] is a key of read_handles whose context has
\* that ino, opened_files_for_read holds no empty set, and
\* opened_files_for_write[ino] = fh implies that fh is a key of
\* write_handles whose context has that ino.
C27_IndexConsistent ==
    /\ \A ino \in DOMAIN opened_files_for_read :
          /\ opened_files_for_read[ino] # {}
          /\ \A h \in opened_files_for_read[ino] :
                h \in DOMAIN read_handles /\ read_handles[h].ino = ino
    /\ \A ino \in DOMAIN opened_files_for_write :
          /\ opened_files_for_write[ino] \in DOMAIN write_handles
          /\ write_handles[opened_files_for_write[ino]].ino = ino

\* state S is the current state without the entry name of parent and
\* without inode victim: the record and the content artifact are gone, the
\* name is not found and not listed, the other entries of parent are as
\* they were, the times of parent are not older
Deleted(S, parent, name, victim) ==
    /\ victim \notin DOMAIN S.inodes
    /\ victim \notin DOMAIN S.contents
    /\ exists_by_name(S, parent, name).val = FALSE
    /\ find_by_name(S, parent, name).val = None
    /\ name \notin read_dir_names(S, parent)
    /\ DOMAIN S.contents[parent].ls
         = DOMAIN contents[parent].ls \ {encrypt_file_name(name)}
    /\ \A e \in DOMAIN S.contents[parent].ls :
          S.contents[parent].ls[e] = contents[parent].ls[e]
    /\ DOMAIN S.contents[parent].hash
         = DOMAIN contents[parent].hash \ {hash_file_name(name)}
    /\ \A h \in DOMAIN S.contents[parent].hash :
          S.contents[parent].hash[h] = contents[parent].hash[h]
    /\ S.inodes[parent].mtime >= inodes[parent].mtime
    /\ S.inodes[parent].ctime >= inodes[parent].ctime

\* C28: after delete_file(parent, name), or delete_dir on an empty
\* directory, succeeds, the inode record and the content artifact of the
\* deleted inode are gone, exists_by_name(parent, name) is false,
\* find_by_name(parent, name) is None, read_dir(parent) no longer yields
\* name, every other entry of parent is unchanged, and the parent's mtime
\* and ctime are not older than before.
C28_DeleteRemoves ==
    \A parent \in Inos, name \in Names :
    \E f \in {find_by_name(Cur, parent, name)} :
        /\ \E d \in {delete_file(Cur, parent, name, now)} :
              d.res = "Ok" => Deleted(d.st, parent, name, f.val[1].ino)
        /\ \E d \in {delete_dir(Cur, parent, name, now)} :
              d.res = "Ok" => Deleted(d.st, parent, name, f.val[1].ino)

\* a delete_file has removed a file from a directory in which another
\* entry made by a caller stays
C28_Witness ==
    /\ ret = [op |-> "delete_file", res |-> "Ok"]
    /\ \E parent \in Inos :
          /\ is_dir(Cur, parent)
          /\ find_by_name(Cur, parent, "a").val = None
          /\ "a" \notin read_dir_names(Cur, parent)
          /\ \E e \in DOMAIN contents[parent].ls :
                contents[parent].ls[e].ino \notin {parent, ROOT_INODE}

\* inode i stays deleted in state S: get_inode and update_inode do not
\* find it and no release brings its record back
StaysDeleted(S, i) ==
    /\ get_inode(S, i).res = "InodeNotFound"
    /\ \E u \in {update_inode(S, i, [perm |-> 1])} :
          u.res = "InodeNotFound" /\ i \notin DOMAIN u.st.inodes
    /\ \A fh \in Fhs : i \notin DOMAIN release(S, fh).st.inodes

\* C29: a deleted inode stays deleted. After delete_file or delete_dir of
\* inode i has completed, get_inode(i) and update_inode(i, ..) fail with
\* InodeNotFound, and no later operation, in particular the release of a
\* handle that was opened on i before the delete, recreates the inode
\* record.
C29_DeletedStaysDeleted ==
    Quiescent =>
    \A parent \in Inos, name \in Names :
    \E f \in {find_by_name(Cur, parent, name)} :
        /\ \E d \in {delete_file(Cur, parent, name, now)} :
              d.res = "Ok" => StaysDeleted(d.st, f.val[1].ino)
        /\ \E d \in {delete_dir(Cur, parent, name, now)} :
              d.res = "Ok" => StaysDeleted(d.st, f.val[1].ino)


(***************************************************************************)
(* Enumeration and lookup of the root directory.                           *)
(***************************************************************************)
NextList ==
    \/ CreateNod({ROOT_INODE}, {"a", "b"}, FileTypes, {<<FALSE, FALSE>>})
    \/ DeleteFile({ROOT_INODE}, {"a", "b"})
    \/ DeleteDir({ROOT_INODE}, {"a", "b"})
    \/ Rename({ROOT_INODE}, {"a", "b"})
    \/ ReadDir(Inos)
    \/ ExpireMetaCache

SpecList == Init /\ [][NextList]_vars

\* the entry of an enumeration is what a lookup of its name finds
Agrees(S, d, entry) ==
    \E f \in {find_by_name(S, d, entry.name)} :
        /\ f.res = "Ok"
        /\ f.val # None
        /\ f.val[1].ino = entry.ino
        /\ f.val[1].kind = entry.kind

\* C30: every entry that read_dir(d) yields, other than "." and "..", is
\* found by find_by_name(d, name) with the same inode number and kind, also
\* after the name was listed, deleted and created again or overwritten by
\* a rename.
C30_EnumerationAgrees ==
    \A d \in Inos :
        \E r \in {read_dir(Cur, d)} :
            r.res = "Ok" =>
                \A entry \in r.val :
                    entry.name \notin {".", ".."} => Agrees(r.st, d, entry)

\* the same, for the directories none of whose entries is in the cache
C30_UncachedAgrees ==
    \A d \in Inos :
        \E r \in {read_dir(Cur, d)} :
            (r.res = "Ok"
             /\ \A k \in DOMAIN dir_entries_meta_cache : k[1] # d) =>
                \A entry \in r.val :
                    entry.name \notin {".", ".."} => Agrees(r.st, d, entry)

\* two create_nod calls with the same parent and the same name, both
\* returned; a caller makes one call, so two calls that both passed the
\* check of the name have run concurrently
SameNameCreates(p, q) ==
    /\ p # q
    /\ tasks[p].op = "create_nod" /\ tasks[q].op = "create_nod"
    /\ tasks[p].pc = "done" /\ tasks[q].pc = "done"
    /\ tasks[p].parent = tasks[q].parent
    /\ tasks[p].name = tasks[q].name

\* C31: name uniqueness under concurrency. When two create_nod calls with
\* the same parent and the same name run concurrently, exactly one returns
\* Ok and the other AlreadyExists, and exactly one new inode record and
\* content artifact exist afterwards.
C31_NameUnique ==
    \A p, q \in Procs :
        SameNameCreates(p, q) =>
            /\ {tasks[p].res, tasks[q].res} = {"Ok", "AlreadyExists"}
            /\ Cardinality(DOMAIN inodes \ {ROOT_INODE}) = 1
            /\ Cardinality(DOMAIN contents \ {ROOT_INODE}) = 1

(***************************************************************************)
(* Entries created, deleted and moved between the directories, under names *)
(* that are not reserved.                                                  *)
(***************************************************************************)
NextMove ==
    \/ CreateNod(Inos, {"a", "b"}, FileTypes, {<<FALSE, FALSE>>})
    \/ DeleteFile(Inos, {"a", "b"})
    \/ DeleteDir(Inos, {"a", "b"})
    \/ Rename(Inos, {"a", "b"})
    \/ Tick

SpecMove == Init /\ [][NextMove]_vars

\* the non-synthetic directory entries that name inode i
NamesOf(i) ==
    {de \in Inos \X {encrypt_file_name("a"), encrypt_file_name("b")} :
        /\ is_dir(Cur, de[1])
        /\ de[2] \in DOMAIN contents[de[1]].ls
        /\ contents[de[1]].ls[de[2]].ino = i}

\* the inodes that the entries of the directories in R name, and R
Below(R) ==
    R \cup {i \in Inos : \E de \in NamesOf(i) : de[1] \in R}

\* the inodes reached from the root by following directory entries
FromRoot == Below(Below(Below({ROOT_INODE})))

\* C32: the namespace stays a tree without orphans. After any sequence of
\* completed create_nod, delete_file, delete_dir and rename calls every
\* inode record other than the root is named by exactly one non-synthetic
\* directory entry, no content artifact is left without a name, and every
\* directory is reachable from inode 1.
C32_TreeNoOrphans ==
    /\ \A i \in (DOMAIN inodes \cup DOMAIN contents) \ {ROOT_INODE} :
          Cardinality(NamesOf(i)) = 1
    /\ \A d \in Inos : is_dir(Cur, d) => d \in FromRoot

\* get_inode(ino) on S returns the fields flds not earlier than t
StampedSince(S, ino, flds, t) ==
    \E g \in {get_inode(S, ino)} :
        /\ g.res = "Ok"
        /\ \A fld \in flds : g.val[fld] >= t

\* C33: rename updates timestamps. After a rename that is not a no-op
\* succeeds, get_inode(parent) and get_inode(new_parent) return mtime and
\* ctime not earlier than the time of the call, and get_inode of the moved
\* inode returns a ctime not earlier than that time.
C33_RenameTimestamps ==
    \A parent, new_parent \in Inos, name, new_name \in {"a", "b"} :
        \E f \in {find_by_name(Cur, parent, name)},
           o \in {rename(Cur, parent, name, new_parent, new_name)} :
            (o.res = "Ok" /\ <<parent, name>> # <<new_parent, new_name>>
             /\ f.res = "Ok" /\ f.val # None) =>
                /\ StampedSince(o.st, parent, {"mtime", "ctime"}, now)
                /\ StampedSince(o.st, new_parent, {"mtime", "ctime"}, now)
                /\ StampedSince(o.st, f.val[1].ino, {"ctime"}, now)

\* rename moves the directory x, found as (parent, name), to another parent
\* that is not x itself
MovesDir(x, parent, name, new_parent, new_name, o) ==
    /\ parent # new_parent
    /\ x # new_parent
    /\ is_dir(Cur, x)
    /\ \E f \in {find_by_name(Cur, parent, name)} :
          f.res = "Ok" /\ f.val # None /\ f.val[1].ino = x
    /\ o = rename(Cur, parent, name, new_parent, new_name)
    /\ o.res = "Ok"

\* the stored $.. artifact of x and the ".." entry of read_dir(x) name d
ParentLink(S, x, d) ==
    /\ is_dir(S, x)
    /\ "$.." \in DOMAIN S.contents[x].ls
    /\ S.contents[x].ls["$.."].ino = d
    /\ \E r \in {read_dir(S, x)} :
          /\ r.res = "Ok"
          /\ \E entry \in r.val : entry.name = ".." /\ entry.ino = d
          /\ \A entry \in r.val : entry.name = ".." => entry.ino = d

\* C34: the parent link follows a moved directory. After rename moves a
\* directory x from parent to new_parent, the stored $.. artifact of x and
\* the ".." entry that read_dir(x) yields refer to new_parent, also when
\* read_dir(x) was called before the rename.
C34_ParentLinkFollows ==
    \A x, parent, new_parent \in Inos, name, new_name \in {"a", "b"} :
        \E o \in {rename(Cur, parent, name, new_parent, new_name)} :
            MovesDir(x, parent, name, new_parent, new_name, o) =>
                ParentLink(o.st, x, new_parent)

\* the same for a directory none of whose entries is in the cache
C34_UncachedLinkFollows ==
    \A x, parent, new_parent \in Inos, name, new_name \in {"a", "b"} :
        \E o \in {rename(Cur, parent, name, new_parent, new_name)} :
            (MovesDir(x, parent, name, new_parent, new_name, o)
             /\ \A k \in DOMAIN dir_entries_meta_cache : k[1] # x) =>
                ParentLink(o.st, x, new_parent)

(***************************************************************************)
(* Reads, writes and removals of the record of one file of the root, by    *)
(* calls that run concurrently.  A step that uses the attribute cache      *)
(* waits for its mutex.                                                    *)
(***************************************************************************)
NextRecord ==
    \/ CacheMutexFree
          /\ CreateNod({ROOT_INODE}, {"a"}, {RegularFile}, {<<FALSE, FALSE>>})
    \/ GetInodeCall(FileInos)
    \/ GetInodeStorage
    \/ GetInodePut
    \/ UpdateCall(FileInos, {[perm |-> 1]})
    \/ UpdateLock
    \/ CacheMutexFree /\ UpdateGet
    \/ UpdateWrite
    \/ CacheMutexFree /\ UpdateCache
    \/ CacheMutexFree /\ DeleteCall({ROOT_INODE}, {"a"})
    \/ DeleteInode
    \/ DeleteContent
    \/ DeleteHash
    \/ DeleteLs
    \/ CacheMutexFree /\ DeleteParent
    \/ CacheMutexFree /\ ExpireCache

SpecRecord == Init /\ [][NextRecord]_vars

\* some call is inside get_inode_from_storage for the record of ino
RecordBeingRead(ino) ==
    \E q \in Procs : At(q, "get_inode", "storage") /\ tasks[q].ino = ino

\* the step writes the record file of ino or removes it
RecordWrittenOrRemoved(ino) ==
    \/ (ino \in DOMAIN inodes) # (ino \in DOMAIN inodes')
    \/ ino \in DOMAIN inodes /\ ino \in DOMAIN inodes'
          /\ inodes'[ino] # inodes[ino]
    \/ \E p \in Procs :
          /\ At(p, "update_inode", "write") /\ tasks[p].ino = ino
          /\ tasks'[p].pc = "cache"

\* C35: inode record locking. A read of an inode record holds the inode's
\* lock in shared mode and a write or removal holds it in exclusive mode,
\* so no record is written or removed while a read of it is in progress.
C35_RecordLocking ==
    [][\A ino \in Inos :
          RecordWrittenOrRemoved(ino) => ~RecordBeingRead(ino)]_vars

\* inode ino reports size in S
SizeIs(S, ino, size) ==
    \E g \in {get_inode(S, ino)} : g.res = "Ok" /\ g.val.size = size

\* after truncate(ino, size) left S, the write handle W of ino caches size,
\* get_inode reports it, and it is still reported once W is released
TruncatedUnder(S, ino, W, size) ==
    /\ W \in DOMAIN S.write_handles
    /\ S.write_handles[W].attr.size = size
    /\ SizeIs(S, ino, size)
    /\ \E r \in {release(S, W)} : r.res = "Ok" /\ SizeIs(r.st, ino, size)

\* C36: truncate with an open writer. When truncate(ino, S) completes while
\* ino has a live write handle W, the cached size of W equals S and
\* get_inode(ino).size = S, and a following release(W) with no write in
\* between leaves get_inode(ino).size = S.
C36_TruncateOpenWriter ==
    \A ino \in FileInos, W \in Fhs, size \in 0..MaxPlain :
        (W \in DOMAIN write_handles /\ write_handles[W].ino = ino) =>
            \E o \in {truncate(Cur, ino, size, now)} :
                o.res = "Ok" => TruncatedUnder(o.st, ino, W, size)

\* the same when W is the only live write handle of ino and the one that
\* opened_files_for_write names, and ino has not been deleted
C36_TruncateOnlyWriter ==
    \A ino \in FileInos, W \in Fhs, size \in 0..MaxPlain :
        (/\ W \in DOMAIN write_handles /\ write_handles[W].ino = ino
         /\ WritersOf(ino) = {W}
         /\ ino \in DOMAIN opened_files_for_write
         /\ opened_files_for_write[ino] = W
         /\ node_exists(Cur, ino) /\ is_file(Cur, ino)) =>
            \E o \in {truncate(Cur, ino, size, now)} :
                o.res = "Ok" => TruncatedUnder(o.st, ino, W, size)

(***************************************************************************)
(* The first mounts of a data directory that is absent or empty, by        *)
(* password providers that yield a passphrase or nothing (Nil), and the    *)
(* calls made once an instance exists.                                     *)
(***************************************************************************)
InitAbsent ==
    /\ inodes = Empty /\ attr_cache = Empty /\ contents = Empty
    /\ read_handles = Empty /\ write_handles = Empty
    /\ opened_files_for_read = Empty /\ opened_files_for_write = Empty
    /\ current_handle = 1
    /\ dir_entries_meta_cache = Empty
    /\ security = NoSecurity
    /\ now = 0
    /\ ret = [op |-> "none", res |-> "Ok"]
    /\ calls = 0
    /\ tasks = [p \in Procs |-> Idle]

\* new() has succeeded on the data directory
Mounted == node_exists(Cur, ROOT_INODE)

NextFirst ==
    \/ Mount(Passwords \cup {Nil})
    \/ Mounted /\ CreateNod(Inos, {"a", "b"}, FileTypes, {<<FALSE, FALSE>>})
    \/ Mounted /\ DeleteFile(Inos, {"a", "b"})
    \/ Mounted /\ ChangePassword(Passwords, Passwords)
    \/ Tick

SpecFirst == InitAbsent /\ [][NextFirst]_vars

\* C38: a failed first mount does not spoil the data directory. When new()
\* on an absent or empty data directory has failed with InvalidPassword
\* because the provider yielded no password, a later new() on the same
\* directory with a passphrase succeeds and does not fail with
\* InvalidDataDirStructure.
C38_FailedMountHarmless ==
    (/\ ret = [op |-> "new", res |-> "InvalidPassword"]
     /\ security.key_enc = None) =>
        \A password \in Passwords :
            \E o \in {new(Cur, password, "salt1", "key1", now)} :
                /\ o.res # "InvalidDataDirStructure"
                /\ o.res = "Ok"

\* the ls/ index of directory d exists and holds its synthetic entries, and
\* children_count(d) is computed without going below zero
IndexCounted(S, d) ==
    /\ is_dir(S, d)
    /\ "$." \in DOMAIN S.contents[d].ls
    /\ d # ROOT_INODE => "$.." \in DOMAIN S.contents[d].ls
    /\ \E cc \in {children_count(S, d)} :
          /\ cc.res = "Ok"
          /\ cc.val = Cardinality(DOMAIN S.contents[d].ls \ {"$.", "$.."})

\* C37: children_count never underflows. In every state in which a
\* directory d can be found by name in its parent, also while the
\* create_nod that creates d is in progress, the ls/ index of d exists and
\* contains its synthetic entries, so children_count(d) is the number of
\* non-synthetic entries.
C37_ChildrenCount ==
    \A parent \in Inos, name \in {"a", "b"} :
        \E f \in {find_by_name(Cur, parent, name)} :
            (f.res = "Ok" /\ f.val # None /\ f.val[1].kind = Directory) =>
                IndexCounted(f.st, f.val[1].ino)

\* the same in the states where no call is in progress
C37_ChildrenCountAtRest ==
    Quiescent => C37_ChildrenCount

(***************************************************************************)
(* The attribute cache of one file of the root under update_inode, the     *)
(* size reconciliation of the writer's callback and cache-filling reads    *)
(* that run concurrently.  A step that uses the cache waits for its mutex. *)
(***************************************************************************)
NextCache ==
    \/ CacheMutexFree
          /\ CreateNod({ROOT_INODE}, {"a"}, {RegularFile}, {<<TRUE, TRUE>>})
    \/ WriteCall(FileInos, {<<1>>}, {1})
    \/ WriteLockCtx
    \/ CacheMutexFree /\ WriteIo
    \/ CallbackLock
    \/ CacheMutexFree /\ CallbackRun
    \/ UpdateCall(FileInos, {[perm |-> 1]})
    \/ UpdateLock
    \/ CacheMutexFree /\ UpdateGet
    \/ UpdateWrite
    \/ CacheMutexFree /\ UpdateCache
    \/ GetInodeCall(FileInos)
    \/ GetInodeStorage
    \/ GetInodePut
    \/ CacheMutexFree /\ ExpireCache

SpecCache == Init /\ [][NextCache]_vars

\* no call on inode i is in progress
AtRest(i) ==
    \A p \in Procs :
        IF tasks[p].op = "idle" THEN TRUE
        ELSE tasks[p].pc = "done" \/ tasks[p].ino # i

\* C39: attribute cache coherence. Whenever no operation on inode i is in
\* progress, an entry for i in the attribute cache equals the inode record
\* stored for i, for every interleaving of update_inode, size
\* reconciliation and cache-filling reads on i.
C39_CacheCoherent ==
    \A i \in DOMAIN attr_cache :
        AtRest(i) => (i \in DOMAIN inodes /\ attr_cache[i] = inodes[i])

\* an update_inode and a write whose callback recorded the new size have
\* run concurrently with the cache expiring, and the cache holds the record
C39_Witness ==
    /\ \E p, q \in Procs :
          /\ tasks[p].op = "update_inode" /\ tasks[p].pc = "done"
          /\ tasks[p].res = "Ok"
          /\ tasks[q].op = "write" /\ tasks[q].pc = "done"
          /\ tasks[q].res = "Ok" /\ tasks[q].seen # None
    /\ 2 \in DOMAIN attr_cache
    /\ attr_cache[2].size = 1
    /\ attr_cache[2] = inodes[2]

\* the handles under which S holds a context
HandlesOf(S) == DOMAIN S.read_handles \cup DOMAIN S.write_handles

\* the call with outcome o registered its contexts under the handle h only,
\* h is at least 1 and not below the counter, which has moved past it
FreshHandle(o, h) ==
    /\ h >= 1
    /\ h >= current_handle
    /\ o.st.current_handle > h
    /\ HandlesOf(o.st) \ HandlesOf(Cur) = {h}

\* the call with outcome o registered no context under a handle that was
\* allocated before, and did not move the counter back
NoHandleReused(o) ==
    /\ o.st.current_handle >= current_handle
    /\ \A h \in HandlesOf(o.st) \ HandlesOf(Cur) :
          h >= current_handle /\ h < o.st.current_handle

\* opens that run concurrently, beside opens, creations and releases that
\* run one at a time
NextAlloc ==
    \/ CreateNod({ROOT_INODE}, {"a"}, {RegularFile}, Flags)
    \/ Open(FileInos, Flags)
    \/ Release(Fhs)
    \/ OpenCall(FileInos, Flags)
    \/ OpenRegister

SpecAlloc == Init /\ [][NextAlloc]_vars

\* the handle an open in progress has allocated is at least 1, is below
\* the counter, is not registered yet and is the handle of no other open
AllocatedApart(p) ==
    /\ 1 <= tasks[p].handle /\ tasks[p].handle < current_handle
    /\ tasks[p].handle \notin HandlesOf(Cur)
    /\ \A q \in Procs \ {p} :
          tasks[q].op = "open" => tasks[q].handle # tasks[p].handle

\* C40: handle allocation. Every handle under which open or create_nod
\* registers a context is at least 1, is greater than every handle
\* allocated before it and is never reused after release, also when opens
\* run concurrently; 0 is never a key of read_handles or write_handles;
\* create_nod returns 0 exactly when the new node is a directory or both
\* read and write are false.
C40_HandleAllocation ==
    /\ \A h \in HandlesOf(Cur) : 1 <= h /\ h < current_handle
    /\ \A p \in Procs : At(p, "open", "register") => AllocatedApart(p)
    /\ \A ino \in FileInos, f \in Flags :
          \E o \in {open(Cur, ino, f[1], f[2])} :
              /\ NoHandleReused(o)
              /\ o.res = "Ok" => FreshHandle(o, o.val)
    /\ \A h \in Fhs :
          \E o \in {release(Cur, h)} :
              /\ NoHandleReused(o)
              /\ h < current_handle =>
                    \A ino \in FileInos, f \in Flags :
                        \E o2 \in {open(o.st, ino, f[1], f[2])} :
                            o2.res = "Ok" => o2.val # h
    /\ \A name \in {"a", "b"}, kind \in FileTypes, f \in Flags,
          ino \in FreeInos :
          \E o \in {create_nod(Cur, ROOT_INODE, name, kind, f[1], f[2],
                               now, ino)} :
              /\ NoHandleReused(o)
              /\ o.res = "Ok" =>
                    /\ (o.val = 0) <=> (kind = Directory \/ f = <<FALSE, FALSE>>)
                    /\ o.val # 0 => FreshHandle(o, o.val)

\* two opens that ran concurrently registered handles 1 and 2, handle 1
\* was released, and the next open returns 3
C40_Witness ==
    /\ ret = [op |-> "release", res |-> "Ok"]
    /\ \E p, q \in Procs :
          /\ tasks[p].op = "open" /\ tasks[p].res = "Ok"
          /\ tasks[p].handle = 1
          /\ tasks[q].op = "open" /\ tasks[q].res = "Ok"
          /\ tasks[q].handle = 2
    /\ current_handle = 3
    /\ HandlesOf(Cur) = {2}
    /\ \E ino \in FileInos :
          \E o \in {open(Cur, ino, TRUE, FALSE)} : o.res = "Ok" /\ o.val = 3
====
